---- MODULE Spec2Model ----
(***************************************************************************)
(* Model of the streaming command dispatcher and of the session            *)
(* continuity engine of the Telegram bots in supabase/functions.           *)
(*                                                                         *)
(* Text is a sequence of one-character strings.  The three words of the    *)
(* command grammar are written with one symbol each: "T" stands for        *)
(* "TG_", "I" for "IMAGE" and "C" for "CONCLUSION", so "TG_IMAGE " is      *)
(* <<"T","I"," ">>, "TG_CONCLUSION " is <<"T","C"," ">> and the legacy     *)
(* "CONCLUSION " is <<"C"," ">>.  "E" stands for the text of the failure   *)
(* notice.                                                                 *)
(***************************************************************************)
EXTENDS Integers, Sequences, FiniteSets, TLC

\* ------------------------------------------------------------------ bounds
MaxLines == 2
MaxFail == 1
MaxOps == 2
MaxNow == 25
MaxStoreFail == 1
MaxBody == 5
MaxSessions == 2

\* --------------------------------------------------------------- constants
NL == "\n"
SP == " "
SEMI == ";"
TG_IMAGE == <<"T", "I", SP>>
TG_CONCLUSION == <<"T", "C", SP>>
\* "CONCLUSION ", the prefix TELEGRAM.md documents
LEGACY_CONCLUSION == <<"C", SP>>
ErrorNotice == <<"E">>
None == "none"
MinDataKeys == 5

SessionTimeoutHours == 24
CLEAR == "/clear"
\* the email argument that index.ts leaves out when it calls getChatHistory
Undefined == "undefined"
\* bots.user_email of the bot that receives the messages
BotEmails == {"", "owner"}

VARIABLES
    variant,         \* which dispatcher of the repository runs the response
    response,        \* the text the model stream carries when it does not fail
    rest,            \* the part of response not yet delivered as a chunk
    responseBuffer,  \* accumulated full text
    lineBuffer,      \* pending partial line
    todo,            \* Messenger calls of the completed lines still to issue
    ended,           \* "no" | "end" | "fail": how the chunk stream ended
    pc,              \* position of the response generation
    calls,           \* Messenger calls in the order they were issued
    status,          \* per call: "inflight" | "ok" | "failed"
    arrival,         \* indices of message/photo calls in completion order
    returned,        \* text handed to the caller for persistence
    persisted,       \* assistant turn stored for this response
    splitMidLine     \* history: a chunk boundary fell inside a line

streamVars == <<variant, response, rest, responseBuffer, lineBuffer, todo,
                ended, pc, calls, status, arrival, returned,
                persisted, splitMidLine>>

VARIABLES
    botEmail,        \* botConfig.user_email
    now,             \* clock, in hours
    turns,           \* rows of the messages table, in insertion order
    userContext,     \* tg_users by user_email: row present, its context
    distills,        \* enrichUserContext invocations, in order
    resolves,        \* getCurrentSession calls of the last handler
    history,         \* what getChatHistory returned to the last handler
    lastOp,          \* the last handler that ran
    opCount,         \* handlers run so far
    storeFailures    \* database calls that failed so far

sessionVars == <<botEmail, now, turns, userContext, distills, resolves,
                 history, lastOp, opCount, storeFailures>>

VARIABLES
    brdSessions,     \* brd_sessions rows of the one (user, chat): statuses
    brdMessages,     \* brdist messages rows of the one (user, chat)
    brdSent,         \* what the last brdist handler sent to the user
    brdLastOp,       \* the last brdist handler that ran
    brdOps,          \* brdist handlers run so far
    brdFailures,     \* datastore calls that failed so far
    brdFailed        \* the datastore calls that failed in the last handler

brdVars == <<brdSessions, brdMessages, brdSent, brdLastOp, brdOps,
             brdFailures, brdFailed>>

VARIABLES
    hookApp,         \* the function that serves the webhook request
    hookKind,        \* what the inbound message is
    hookPc,          \* position of the request handler
    hookTask,        \* the processing of the conversation turn
    hookSteps,       \* steps of the turn carried out so far
    hookAck          \* the response returned and the steps done by then

hookVars == <<hookApp, hookKind, hookPc, hookTask, hookSteps, hookAck>>

VARIABLES
    distContext,     \* tg_users.context of the one (account, user)
    distProc,        \* the enrichUserContext invocations under way
    distWrites       \* the texts updateUserContext stored, in order

distVars == <<distContext, distProc, distWrites>>

VARIABLES
    brdData,         \* brd_sessions.brd_data of each row: its number of keys
    specs            \* rows of the specs table of the one (user, chat)

docVars == <<brdData, specs>>

VARIABLES
    raceTask         \* the inbound messages being handled at the same time

raceVars == <<raceTask>>

VARIABLES
    replyTask        \* the reply() calls under way, each with its locals

replyVars == <<replyTask>>

VARIABLES
    brdTask          \* the brdist handlers under way at the same time

brdTaskVars == <<brdTask>>

lateVars == <<docVars, raceVars, replyVars, brdTaskVars>>

auxVars == <<brdVars, hookVars, distVars, lateVars>>

vars == <<streamVars, sessionVars, auxVars>>

\* ------------------------------------------------------------ text helpers
IsSpace(c) == c \in {SP, NL}

RECURSIVE TrimStart(_)
TrimStart(s) ==
    IF s # <<>> /\ IsSpace(Head(s)) THEN TrimStart(Tail(s)) ELSE s

RECURSIVE TrimEnd(_)
TrimEnd(s) ==
    IF s # <<>> /\ IsSpace(s[Len(s)])
    THEN TrimEnd(SubSeq(s, 1, Len(s) - 1))
    ELSE s

Trim(s) == TrimEnd(TrimStart(s))

StartsWith(s, p) == Len(s) >= Len(p) /\ SubSeq(s, 1, Len(p)) = p

Includes(s, c) == \E i \in 1..Len(s) : s[i] = c

\* String.prototype.split with a one-character separator: the fields
\* between the separators, always at least one field
RECURSIVE Split(_, _)
Split(s, sep) ==
    IF ~Includes(s, sep) THEN <<s>>
    ELSE LET i == CHOOSE k \in 1..Len(s) :
                      s[k] = sep /\ \A j \in 1..(k - 1) : s[j] # sep
         IN <<SubSeq(s, 1, i - 1)>> \o Split(SubSeq(s, i + 1, Len(s)), sep)

\* String.prototype.replace(p, ""): removes the first occurrence of p
RECURSIVE Replace(_, _)
Replace(s, p) ==
    IF Len(s) < Len(p) THEN s
    ELSE IF StartsWith(s, p) THEN SubSeq(s, Len(p) + 1, Len(s))
    ELSE <<Head(s)>> \o Replace(Tail(s), p)

\* Array.prototype.pop() leaves every element but the last
ButLast(a) == SubSeq(a, 1, Len(a) - 1)

Last(a) == a[Len(a)]

RECURSIVE MapTrim(_)
MapTrim(a) == IF a = <<>> THEN <<>> ELSE <<Trim(Head(a))>> \o MapTrim(Tail(a))

RECURSIVE FilterNonEmpty(_)
FilterNonEmpty(a) ==
    IF a = <<>> THEN <<>>
    ELSE IF Len(Head(a)) > 0 THEN <<Head(a)>> \o FilterNonEmpty(Tail(a))
    ELSE FilterNonEmpty(Tail(a))

RECURSIVE Concat(_)
Concat(a) == IF a = <<>> THEN <<>> ELSE Head(a) \o Concat(Tail(a))


\* ------------------------------------------------------- Messenger calls
\* aw: whether the dispatcher awaits the call before going on
Photo(url, caption, aw) ==
    [kind |-> "photo", a |-> url, b |-> caption, kb |-> <<>>,
     markup |-> FALSE, aw |-> aw]

Message(text, aw) ==
    [kind |-> "message", a |-> text, b |-> <<>>, kb |-> <<>>,
     markup |-> FALSE, aw |-> aw]

\* replyMarkup = {keyboard: one row per suggestion, resize_keyboard,
\* one_time_keyboard}
Conclusion(text, suggestions, aw) ==
    [kind |-> "message", a |-> text, b |-> <<>>, kb |-> suggestions,
     markup |-> TRUE, aw |-> aw]

Typing(aw) ==
    [kind |-> "typing", a |-> <<>>, b |-> <<>>, kb |-> <<>>,
     markup |-> FALSE, aw |-> aw]

IsSend(c) == c.kind \in {"message", "photo"}

\* ------------------------------------------------- line classification
\* processStreamLine passing the caption on as it stands, not trimmed
processStreamLine_CaptionUntrimmed(line) ==
    IF line = <<>> THEN <<>>
    ELSE IF StartsWith(line, TG_IMAGE) /\ Includes(line, SEMI)
    THEN LET parts == Split(Replace(line, TG_IMAGE), SEMI)
         IN IF Len(parts) >= 1
            THEN <<Photo(Trim(parts[1]),
                         IF Len(parts) >= 2 THEN parts[2] ELSE <<>>,
                         TRUE),
                   Typing(FALSE)>>
            ELSE <<>>
    ELSE IF StartsWith(line, TG_CONCLUSION) /\ Includes(line, SEMI)
    THEN LET parts == Split(Replace(line, TG_CONCLUSION), SEMI)
         IN IF Len(parts) >= 2
            THEN <<Conclusion(Trim(parts[1]),
                              FilterNonEmpty(MapTrim(Tail(parts))), TRUE)>>
            ELSE <<>>
    ELSE IF Len(Trim(line)) > 0
    THEN <<Message(line, TRUE), Typing(TRUE)>>
    ELSE <<>>

\* processStreamLine without ".filter(s => s.length > 0)"
processStreamLine_KeepsEmptyLabels(line) ==
    IF line = <<>> THEN <<>>
    ELSE IF StartsWith(line, TG_IMAGE) /\ Includes(line, SEMI)
    THEN LET parts == Split(Replace(line, TG_IMAGE), SEMI)
         IN IF Len(parts) >= 1
            THEN <<Photo(Trim(parts[1]),
                         IF Len(parts) >= 2 THEN Trim(parts[2]) ELSE <<>>,
                         TRUE),
                   Typing(FALSE)>>
            ELSE <<>>
    ELSE IF StartsWith(line, TG_CONCLUSION) /\ Includes(line, SEMI)
    THEN LET parts == Split(Replace(line, TG_CONCLUSION), SEMI)
         IN IF Len(parts) >= 2
            THEN <<Conclusion(Trim(parts[1]), MapTrim(Tail(parts)), TRUE)>>
            ELSE <<>>
    ELSE IF Len(Trim(line)) > 0
    THEN <<Message(line, TRUE), Typing(TRUE)>>
    ELSE <<>>

\* processStreamLine accepting the "CONCLUSION " grammar as well
processStreamLine_BothGrammars(line) ==
    IF line = <<>> THEN <<>>
    ELSE IF StartsWith(line, TG_IMAGE) /\ Includes(line, SEMI)
    THEN LET parts == Split(Replace(line, TG_IMAGE), SEMI)
         IN IF Len(parts) >= 1
            THEN <<Photo(Trim(parts[1]),
                         IF Len(parts) >= 2 THEN Trim(parts[2]) ELSE <<>>,
                         TRUE),
                   Typing(FALSE)>>
            ELSE <<>>
    ELSE IF StartsWith(line, TG_CONCLUSION) /\ Includes(line, SEMI)
    THEN LET parts == Split(Replace(line, TG_CONCLUSION), SEMI)
         IN IF Len(parts) >= 2
            THEN <<Conclusion(Trim(parts[1]),
                              FilterNonEmpty(MapTrim(Tail(parts))), TRUE)>>
            ELSE <<>>
    ELSE IF StartsWith(line, LEGACY_CONCLUSION) /\ Includes(line, SEMI)
    THEN LET parts == Split(Replace(line, LEGACY_CONCLUSION), SEMI)
         IN IF Len(parts) >= 2
            THEN <<Conclusion(Trim(parts[1]),
                              FilterNonEmpty(MapTrim(Tail(parts))), TRUE)>>
            ELSE <<>>
    ELSE IF Len(Trim(line)) > 0
    THEN <<Message(line, TRUE), Typing(TRUE)>>
    ELSE <<>>

\* reply.ts: processStreamLine awaits the sends; the typing indicator after
\* a photo is not awaited
processStreamLine(line) ==
    IF line = <<>> THEN <<>>
    ELSE IF StartsWith(line, TG_IMAGE) /\ Includes(line, SEMI)
    THEN LET parts == Split(Replace(line, TG_IMAGE), SEMI)
         IN IF Len(parts) >= 1
            THEN <<Photo(Trim(parts[1]),
                         IF Len(parts) >= 2 THEN Trim(parts[2]) ELSE <<>>,
                         TRUE),
                   Typing(FALSE)>>
            ELSE <<>>
    ELSE IF StartsWith(line, TG_CONCLUSION) /\ Includes(line, SEMI)
    THEN LET parts == Split(Replace(line, TG_CONCLUSION), SEMI)
         IN IF Len(parts) >= 2
            THEN <<Conclusion(Trim(parts[1]),
                              FilterNonEmpty(MapTrim(Tail(parts))), TRUE)>>
            ELSE <<>>
    ELSE IF Len(Trim(line)) > 0
    THEN <<Message(line, TRUE), Typing(TRUE)>>
    ELSE <<>>

\* telegram.ts processStreamLine without "if (!line) return"
telegramProcessStreamLine_NoEmptyCheck(line) ==
    IF StartsWith(line, TG_IMAGE) /\ Includes(line, SEMI)
    THEN LET parts == Split(Replace(line, TG_IMAGE), SEMI)
         IN IF Len(parts) >= 1
            THEN <<Photo(Trim(parts[1]),
                         IF Len(parts) >= 2 THEN Trim(parts[2]) ELSE <<>>,
                         FALSE),
                   Typing(FALSE)>>
            ELSE <<>>
    ELSE IF StartsWith(line, TG_CONCLUSION) /\ Includes(line, SEMI)
    THEN LET parts == Split(Replace(line, TG_CONCLUSION), SEMI)
         IN IF Len(parts) >= 2
            THEN <<Conclusion(Trim(parts[1]),
                              FilterNonEmpty(MapTrim(Tail(parts))), FALSE)>>
            ELSE <<>>
    ELSE <<Message(line, FALSE), Typing(FALSE)>>

\* telegram.ts: processStreamLine is synchronous and awaits nothing
telegramProcessStreamLine(line) ==
    IF line = <<>> THEN <<>>
    ELSE IF StartsWith(line, TG_IMAGE) /\ Includes(line, SEMI)
    THEN LET parts == Split(Replace(line, TG_IMAGE), SEMI)
         IN IF Len(parts) >= 1
            THEN <<Photo(Trim(parts[1]),
                         IF Len(parts) >= 2 THEN Trim(parts[2]) ELSE <<>>,
                         FALSE),
                   Typing(FALSE)>>
            ELSE <<>>
    ELSE IF StartsWith(line, TG_CONCLUSION) /\ Includes(line, SEMI)
    THEN LET parts == Split(Replace(line, TG_CONCLUSION), SEMI)
         IN IF Len(parts) >= 2
            THEN <<Conclusion(Trim(parts[1]),
                              FilterNonEmpty(MapTrim(Tail(parts))), FALSE)>>
            ELSE <<>>
    ELSE <<Message(line, FALSE), Typing(FALSE)>>

\* lib/telegram-bot-framework.ts: TelegramBot.processStreamLine awaits
\* every call
frameworkProcessStreamLine(line) ==
    IF line = <<>> THEN <<>>
    ELSE IF StartsWith(line, TG_IMAGE) /\ Includes(line, SEMI)
    THEN LET parts == Split(Replace(line, TG_IMAGE), SEMI)
         IN IF Len(parts) >= 1
            THEN <<Photo(Trim(parts[1]),
                         IF Len(parts) >= 2 THEN Trim(parts[2]) ELSE <<>>,
                         TRUE),
                   Typing(TRUE)>>
            ELSE <<>>
    ELSE IF StartsWith(line, TG_CONCLUSION) /\ Includes(line, SEMI)
    THEN LET parts == Split(Replace(line, TG_CONCLUSION), SEMI)
         IN IF Len(parts) >= 2
            THEN <<Conclusion(Trim(parts[1]),
                              FilterNonEmpty(MapTrim(Tail(parts))), TRUE)>>
            ELSE <<>>
    ELSE <<Message(line, TRUE), Typing(TRUE)>>

\* telegram-adapter.ts: sendMessage returns false without calling the
\* Telegram API when the text is empty
adapterSendMessage(op) == IF Len(op.a) = 0 THEN <<>> ELSE <<op>>

\* brdist/index.ts: body of the loop over the completed lines; the line is
\* classified and sent untrimmed
brdistProcessLine(line) ==
    IF Len(Trim(line)) = 0 THEN <<>>
    ELSE IF StartsWith(line, TG_IMAGE) /\ Includes(line, SEMI)
    THEN LET parts == Split(Replace(line, TG_IMAGE), SEMI)
         IN IF Len(parts) >= 1
            THEN <<Photo(Trim(parts[1]),
                         IF Len(parts) >= 2 THEN Trim(parts[2]) ELSE <<>>,
                         TRUE),
                   Typing(FALSE)>>
            ELSE <<>>
    ELSE IF StartsWith(line, TG_CONCLUSION) /\ Includes(line, SEMI)
    THEN LET parts == Split(Replace(line, TG_CONCLUSION), SEMI)
         IN IF Len(parts) >= 2
            THEN adapterSendMessage(
                     Conclusion(Trim(parts[1]),
                                FilterNonEmpty(MapTrim(Tail(parts))), TRUE))
            ELSE <<>>
    ELSE adapterSendMessage(Message(line, TRUE)) \o <<Typing(FALSE)>>

\* brdist/index.ts: the remaining line in the buffer after the stream
brdistProcessFinal(buf) ==
    IF Len(Trim(buf)) > 0
    THEN IF StartsWith(buf, TG_CONCLUSION) /\ Includes(buf, SEMI)
         THEN LET parts == Split(Replace(buf, TG_CONCLUSION), SEMI)
              IN IF Len(parts) >= 2
                 THEN adapterSendMessage(
                          Conclusion(Trim(parts[1]),
                                     FilterNonEmpty(MapTrim(Tail(parts))),
                                     TRUE))
                 ELSE <<>>
         ELSE IF ~StartsWith(buf, TG_IMAGE)
         THEN adapterSendMessage(Message(buf, TRUE))
         ELSE <<>>
    ELSE <<>>

Variants == {"reply", "bot", "brdist"}

\* the dispatchers whose line classification is exercised line by line
LineVariants == Variants \cup {"framework"}

\* for (const line of lines) ... of the three dispatchers
RECURSIVE processLines(_, _)
processLines(v, lines) ==
    IF lines = <<>> THEN <<>>
    ELSE (CASE v = "reply" -> processStreamLine(Trim(Head(lines)))
            [] v = "bot" -> telegramProcessStreamLine(Trim(Head(lines)))
            [] v = "brdist" -> brdistProcessLine(Head(lines))
            [] v = "framework" ->
                 frameworkProcessStreamLine(Trim(Head(lines))))
         \o processLines(v, Tail(lines))

\* "Process any remaining content" after the loop over the stream
processRemaining(v, buf) ==
    CASE v = "reply" ->
           IF Trim(buf) # <<>> THEN processStreamLine(Trim(buf)) ELSE <<>>
      [] v = "bot" ->
           IF Trim(buf) # <<>> THEN telegramProcessStreamLine(Trim(buf))
           ELSE <<>>
      [] v = "brdist" -> brdistProcessFinal(buf)
      [] v = "framework" ->
           IF Trim(buf) # <<>> THEN frameworkProcessStreamLine(Trim(buf))
           ELSE <<>>


\* ------------------------------------------------------------ the store
\* the state the data access layer reads and writes, threaded through the
\* calls of one handler; n counts the database calls the handler has made
Db == [turns |-> turns, ctx |-> userContext, log |-> distills, res |-> <<>>,
       n |-> 0, fails |-> 0]

\* the database call numbered failAt of a handler fails (0: none fails)
DbCall(st, failAt) ==
    [st EXCEPT !.n = @ + 1, !.fails = IF st.n + 1 = failAt THEN @ + 1 ELSE @]

CallFailed(st, failAt) == st.n = failAt

ScopeTurns(ts, email) == SelectSeq(ts, LAMBDA m : m.user_email = email)

\* .order('created_at', {ascending: false}).limit(1).single(): the clock
\* never goes back, so the latest row of a scope is the last one inserted;
\* the result is <<>> or the one row
LatestMessage(ts, email) ==
    IF ScopeTurns(ts, email) = <<>> THEN <<>>
    ELSE <<Last(ScopeTurns(ts, email))>>

\* what generateText may give back to enrichUserContext: an error, a text
\* of at most ten characters, a usable summary
LlmOutcomes == {"throw", "short", "summary"}

\* dal.ts getUserContext: '' on error or without a row
getUserContext(st, email, failAt) ==
    LET st1 == DbCall(st, failAt)
    IN [st |-> st1,
        context |-> IF CallFailed(st1, failAt) \/ ~st1.ctx[email].row
                    THEN <<>> ELSE st1.ctx[email].context]

\* the text generateText returns for a session: here the context read
\* with the number of the session appended
Summary(context, sessionNumber) == context \o <<sessionNumber>>

\* updateUserContext storing the new text after the old one
updateUserContext_Merges(st, email, context, failAt) ==
    LET st1 == DbCall(st, failAt)
    IN IF CallFailed(st1, failAt) THEN [st |-> st1, ok |-> FALSE]
       ELSE [st |-> [st1 EXCEPT !.ctx[email].context =
                                    IF st1.ctx[email].row THEN @ \o context
                                    ELSE @],
             ok |-> TRUE]

\* dal.ts updateUserContext: an update of no row is not an error
updateUserContext(st, email, context, failAt) ==
    LET st1 == DbCall(st, failAt)
    IN IF CallFailed(st1, failAt) THEN [st |-> st1, ok |-> FALSE]
       ELSE [st |-> [st1 EXCEPT !.ctx[email].context =
                                    IF st1.ctx[email].row THEN context
                                    ELSE @],
             ok |-> TRUE]

\* one invocation of enrichUserContext as the log keeps it: the scope, the
\* session, the turns read for it, what the model answered when it was
\* asked, the summary, how it ended, the value returned, whether the read
\* of the context succeeded and the stored context of the scope before and
\* after
Distilled(st, stx, email, sessionNumber, sessionMessages, llm, summary, outcome, contextRead) ==
    [st |-> [stx EXCEPT !.log = Append(@,
                [user_email |-> email, session |-> sessionNumber,
                 messages |-> sessionMessages,
                 llm |-> IF outcome \in {"read failed", "no messages"}
                         THEN None ELSE llm,
                 summary |-> summary, outcome |-> outcome,
                 ok |-> outcome = "stored", contextRead |-> contextRead,
                 before |-> st.ctx[email], after |-> stx.ctx[email]])],
     ok |-> outcome = "stored"]

\* enrichUserContext without the test "sessionMessages.length === 0"
enrichUserContext_NoEmptyCheck(st, email, sessionNumber, failAt, llm) ==
    LET cur == getUserContext(st, email, failAt)
        st1 == DbCall(cur.st, failAt)
        sessionMessages ==
            IF CallFailed(st1, failAt) THEN <<>>
            ELSE SelectSeq(ScopeTurns(st1.turns, email),
                           LAMBDA m : m.session = sessionNumber
                                      /\ m.message_text # CLEAR)
        summary == Summary(cur.context, sessionNumber)
        updated == updateUserContext(st1, email, summary, failAt)
        outcome == IF CallFailed(st1, failAt) THEN "read failed"
                   ELSE IF llm = "throw" THEN "model error"
                   ELSE IF llm = "short" THEN "summary too short"
                   ELSE IF updated.ok THEN "stored"
                   ELSE "write failed"
        stx == IF outcome \in {"stored", "write failed"} THEN updated.st
               ELSE st1
    IN Distilled(st, stx, email, sessionNumber, sessionMessages, llm,
                 summary, outcome, ~CallFailed(cur.st, failAt))

\* dal.ts enrichUserContext
enrichUserContext(st, email, sessionNumber, failAt, llm) ==
    LET cur == getUserContext(st, email, failAt)
        st1 == DbCall(cur.st, failAt)
        sessionMessages ==
            IF CallFailed(st1, failAt) THEN <<>>
            ELSE SelectSeq(ScopeTurns(st1.turns, email),
                           LAMBDA m : m.session = sessionNumber
                                      /\ m.message_text # CLEAR)
        summary == Summary(cur.context, sessionNumber)
        updated == updateUserContext(st1, email, summary, failAt)
        outcome == IF CallFailed(st1, failAt) THEN "read failed"
                   ELSE IF sessionMessages = <<>> THEN "no messages"
                   ELSE IF llm = "throw" THEN "model error"
                   ELSE IF llm = "short" THEN "summary too short"
                   ELSE IF updated.ok THEN "stored"
                   ELSE "write failed"
        stx == IF outcome \in {"stored", "write failed"} THEN updated.st
               ELSE st1
    IN Distilled(st, stx, email, sessionNumber, sessionMessages, llm,
                 summary, outcome, ~CallFailed(cur.st, failAt))

\* getCurrentSession returns n: the store afterwards, with the record of
\* this resolution (the scope, how many turns it held, the latest turn
\* read, <<>> when there is none or the read failed, the time, the number
\* returned, whether the read failed, the distiller invocations made)
Resolved(st, stx, email, found, failed, t, n) ==
    [st |-> [stx EXCEPT !.res = Append(@,
                [user_email |-> email,
                 stored |-> Len(ScopeTurns(st.turns, email)),
                 latest |-> found, at |-> t,
                 session |-> n, failed |-> failed,
                 distilled |-> SubSeq(stx.log, Len(st.log) + 1,
                                      Len(stx.log))])],
     session |-> n]

\* getCurrentSession without the try/catch around enrichUserContext: a
\* distillation that stores no summary ends in the outer catch, which
\* returns 1
getCurrentSession_DistillerUncaught(st, email, t, failAt, llm) ==
    LET st1 == DbCall(st, failAt)
        failed == CallFailed(st1, failAt)
        found == IF failed THEN <<>> ELSE LatestMessage(st1.turns, email)
        latestMessage == found[1]
        hoursDiff == t - latestMessage.created_at
        enriched == enrichUserContext(st1, email, latestMessage.session,
                                      failAt, llm)
    IN IF found = <<>> THEN Resolved(st, st1, email, found, failed, t, 1)
       ELSE IF latestMessage.message_text = CLEAR
               \/ hoursDiff > SessionTimeoutHours
            THEN IF latestMessage.message_text # CLEAR
                    /\ hoursDiff > SessionTimeoutHours
                 THEN Resolved(st, enriched.st, email, found, failed, t,
                               IF enriched.ok
                               THEN latestMessage.session + 1 ELSE 1)
                 ELSE Resolved(st, st1, email, found, failed, t,
                               latestMessage.session + 1)
            ELSE Resolved(st, st1, email, found, failed, t,
                          latestMessage.session)

\* getCurrentSession with "hoursDiff >= 24" for "hoursDiff > 24"
getCurrentSession_AtLeast(st, email, t, failAt, llm) ==
    LET st1 == DbCall(st, failAt)
        failed == CallFailed(st1, failAt)
        found == IF failed THEN <<>> ELSE LatestMessage(st1.turns, email)
        latestMessage == found[1]
        hoursDiff == t - latestMessage.created_at
    IN IF found = <<>> THEN Resolved(st, st1, email, found, failed, t, 1)
       ELSE IF latestMessage.message_text = CLEAR
               \/ hoursDiff >= SessionTimeoutHours
            THEN IF latestMessage.message_text # CLEAR
                    /\ hoursDiff >= SessionTimeoutHours
                 THEN Resolved(st,
                               enrichUserContext(st1, email,
                                   latestMessage.session, failAt, llm).st,
                               email, found, failed, t,
                               latestMessage.session + 1)
                 ELSE Resolved(st, st1, email, found, failed, t,
                               latestMessage.session + 1)
            ELSE Resolved(st, st1, email, found, failed, t,
                          latestMessage.session)

\* getCurrentSession handing the new session number to enrichUserContext
getCurrentSession_DistillsNewSession(st, email, t, failAt, llm) ==
    LET st1 == DbCall(st, failAt)
        failed == CallFailed(st1, failAt)
        found == IF failed THEN <<>> ELSE LatestMessage(st1.turns, email)
        latestMessage == found[1]
        hoursDiff == t - latestMessage.created_at
    IN IF found = <<>> THEN Resolved(st, st1, email, found, failed, t, 1)
       ELSE IF latestMessage.message_text = CLEAR
               \/ hoursDiff > SessionTimeoutHours
            THEN IF latestMessage.message_text # CLEAR
                    /\ hoursDiff > SessionTimeoutHours
                 THEN Resolved(st,
                               enrichUserContext(st1, email,
                                   latestMessage.session + 1, failAt, llm).st,
                               email, found, failed, t,
                               latestMessage.session + 1)
                 ELSE Resolved(st, st1, email, found, failed, t,
                               latestMessage.session + 1)
            ELSE Resolved(st, st1, email, found, failed, t,
                          latestMessage.session)

\* getCurrentSession enriching the context on every rollover, a reset
\* marker included
getCurrentSession_DistillsOnMarker(st, email, t, failAt, llm) ==
    LET st1 == DbCall(st, failAt)
        failed == CallFailed(st1, failAt)
        found == IF failed THEN <<>> ELSE LatestMessage(st1.turns, email)
        latestMessage == found[1]
        hoursDiff == t - latestMessage.created_at
    IN IF found = <<>> THEN Resolved(st, st1, email, found, failed, t, 1)
       ELSE IF latestMessage.message_text = CLEAR
               \/ hoursDiff > SessionTimeoutHours
            THEN IF TRUE
                 THEN Resolved(st,
                               enrichUserContext(st1, email,
                                   latestMessage.session, failAt, llm).st,
                               email, found, failed, t,
                               latestMessage.session + 1)
                 ELSE Resolved(st, st1, email, found, failed, t,
                               latestMessage.session + 1)
            ELSE Resolved(st, st1, email, found, failed, t,
                          latestMessage.session)

\* getCurrentSession numbering the first session 0
getCurrentSession_FromZero(st, email, t, failAt, llm) ==
    LET st1 == DbCall(st, failAt)
        failed == CallFailed(st1, failAt)
        found == IF failed THEN <<>> ELSE LatestMessage(st1.turns, email)
        latestMessage == found[1]
        hoursDiff == t - latestMessage.created_at
    IN IF found = <<>> THEN Resolved(st, st1, email, found, failed, t, 0)
       ELSE IF latestMessage.message_text = CLEAR
               \/ hoursDiff > SessionTimeoutHours
            THEN IF latestMessage.message_text # CLEAR
                    /\ hoursDiff > SessionTimeoutHours
                 THEN Resolved(st,
                               enrichUserContext(st1, email,
                                   latestMessage.session, failAt, llm).st,
                               email, found, failed, t,
                               latestMessage.session + 1)
                 ELSE Resolved(st, st1, email, found, failed, t,
                               latestMessage.session + 1)
            ELSE Resolved(st, st1, email, found, failed, t,
                          latestMessage.session)

\* dal.ts getCurrentSession at time t
getCurrentSession(st, email, t, failAt, llm) ==
    LET st1 == DbCall(st, failAt)
        failed == CallFailed(st1, failAt)
        found == IF failed THEN <<>> ELSE LatestMessage(st1.turns, email)
        latestMessage == found[1]
        hoursDiff == t - latestMessage.created_at
    IN IF found = <<>> THEN Resolved(st, st1, email, found, failed, t, 1)
       ELSE IF latestMessage.message_text = CLEAR
               \/ hoursDiff > SessionTimeoutHours
            THEN IF latestMessage.message_text # CLEAR
                    /\ hoursDiff > SessionTimeoutHours
                 THEN Resolved(st,
                               enrichUserContext(st1, email,
                                   latestMessage.session, failAt, llm).st,
                               email, found, failed, t,
                               latestMessage.session + 1)
                 ELSE Resolved(st, st1, email, found, failed, t,
                               latestMessage.session + 1)
            ELSE Resolved(st, st1, email, found, failed, t,
                          latestMessage.session)

\* upsertTelegramUser writing an empty context with the row
upsertTelegramUser_ResetsContext(st, email, failAt) ==
    LET st1 == DbCall(st, failAt)
    IN IF CallFailed(st1, failAt) THEN st1
       ELSE [st1 EXCEPT !.ctx[email] = [row |-> TRUE, context |-> <<>>]]

\* dal.ts upsertTelegramUser
upsertTelegramUser(st, email, failAt) ==
    LET st1 == DbCall(st, failAt)
    IN IF CallFailed(st1, failAt) THEN st1
       ELSE [st1 EXCEPT !.ctx[email].row = TRUE]

Insert(st, email, role, text, sessionNumber, t, failAt) ==
    LET st1 == DbCall(st, failAt)
    IN IF CallFailed(st1, failAt) THEN st1
       ELSE [st1 EXCEPT !.turns = Append(@,
                [user_email |-> email, role |-> role, message_text |-> text,
                 session |-> sessionNumber, created_at |-> t])]

\* dal.ts addMessageToHistory (no caller passes message.session)
addMessageToHistory(st, email, role, text, t, failAt, llm) ==
    LET st1 == upsertTelegramUser(st, email, failAt)
        cur == getCurrentSession(st1, email, t, failAt, llm)
    IN Insert(cur.st, email, role, text, cur.session, t, failAt)

\* dal.ts addClearMessage
addClearMessage(st, email, t, failAt, llm) ==
    LET cur == getCurrentSession(st, email, t, failAt, llm)
        enriched == enrichUserContext(cur.st, email, cur.session, failAt, llm)
    IN Insert(enriched.st, email, "user", CLEAR, cur.session, t, failAt)

\* dal.ts clearChatHistory
clearChatHistory(st, email, t, failAt, llm) ==
    addClearMessage(st, email, t, failAt, llm)

\* getChatHistory ignoring the session: every turn of the scope
getChatHistory_AllSessions(st, email, t, failAt, llm) ==
    LET cur == getCurrentSession(st, email, t, failAt, llm)
        st1 == DbCall(cur.st, failAt)
    IN [st |-> st1,
        session |-> cur.session,
        rows |-> IF CallFailed(st1, failAt) THEN <<>>
                 ELSE SelectSeq(ScopeTurns(st1.turns, email),
                                LAMBDA m : m.message_text # CLEAR)]

\* dal.ts getChatHistory: the rows of the current session, without the
\* '/clear' rows
getChatHistory(st, email, t, failAt, llm) ==
    LET cur == getCurrentSession(st, email, t, failAt, llm)
        st1 == DbCall(cur.st, failAt)
    IN [st |-> st1,
        session |-> cur.session,
        rows |-> IF CallFailed(st1, failAt) THEN <<>>
                 ELSE SelectSeq(ScopeTurns(st1.turns, email),
                                LAMBDA m : m.session = cur.session
                                           /\ m.message_text # CLEAR)]

AllEmails == BotEmails \cup {"", Undefined}

NoHistory == [session |-> 0, rows |-> <<>>]

\* no document command has run and no spec is stored
DocIdle ==
    /\ brdData = <<>>
    /\ specs = <<>>

\* no two messages are being handled at the same time
RaceIdle == raceTask = <<>>

\* no reply() call and no overlapping brdist handler is under way
TasksIdle ==
    /\ replyTask = <<>>
    /\ brdTask = <<>>

LateIdle == DocIdle /\ RaceIdle /\ TasksIdle

\* no brdist handler, webhook request or overlapping distillation
AuxIdleBut ==
    /\ brdSessions = <<>>
    /\ brdMessages = <<>>
    /\ brdSent = <<>>
    /\ brdLastOp = None
    /\ brdOps = 0
    /\ brdFailures = 0
    /\ brdFailed = {}
    /\ hookApp = None
    /\ hookKind = None
    /\ hookPc = "idle"
    /\ hookTask = None
    /\ hookSteps = <<>>
    /\ hookAck = <<>>
    /\ distContext = <<>>
    /\ distProc = <<>>
    /\ distWrites = <<>>

AuxIdle == AuxIdleBut /\ LateIdle

StoreEmpty ==
    /\ now = 0
    /\ turns = <<>>
    /\ userContext = [e \in AllEmails |-> [row |-> FALSE, context |-> <<>>]]
    /\ distills = <<>>
    /\ resolves = <<>>
    /\ history = NoHistory
    /\ lastOp = None
    /\ opCount = 0
    /\ storeFailures = 0

\* ------------------------------------------------------ response inputs
\* lines the model may produce: blank, plain text, an image command, an
\* image prefix without separator, a conclusion with two suggestions
Segments ==
    { <<SP>>,
      <<"a">>,
      TG_IMAGE \o <<"u", SEMI, "c">>,
      TG_IMAGE \o <<"u">>,
      TG_CONCLUSION \o <<"a", SEMI, "x", SEMI, "y">> }

RECURSIVE Join(_)
Join(ls) ==
    IF Len(ls) = 0 THEN <<>>
    ELSE IF Len(ls) = 1 THEN ls[1]
    ELSE ls[1] \o <<NL>> \o Join(Tail(ls))

\* one to MaxLines lines, with or without a newline after the last one
Responses ==
    UNION { { Join(ls) : ls \in [1..n -> Segments] } : n \in 1..MaxLines }
    \cup UNION { { Join(ls) \o <<NL>> : ls \in [1..n -> Segments] }
                 : n \in 1..MaxLines }

\* ------------------------------------------------------ stream dispatch
NextPc(td, en) ==
    IF td # <<>> THEN "dispatch"
    ELSE IF en = "no" THEN "stream"
    ELSE "persist"

Failures == Cardinality({i \in 1..Len(status) : status[i] = "failed"})

\* the arguments of a call as the Messenger sees them
Call(op) == [kind |-> op.kind, a |-> op.a, b |-> op.b, kb |-> op.kb,
             markup |-> op.markup]

InitStream ==
    /\ variant \in Variants
    /\ response \in Responses
    /\ rest = response
    /\ responseBuffer = <<>>
    /\ lineBuffer = <<>>
    /\ todo = <<>>
    /\ ended = "no"
    /\ pc = "stream"
    /\ calls = <<>>
    /\ status = <<>>
    /\ arrival = <<>>
    /\ returned = None
    /\ persisted = None
    /\ splitMidLine = FALSE
    /\ botEmail = "owner"
    /\ StoreEmpty
    /\ AuxIdle

\* NextChunk splitting the chunk alone: the unfinished line carried over
\* from the chunks before is forgotten
NextChunk_NoCarry(k) ==
    /\ pc = "stream"
    /\ ended = "no"
    /\ k \in 1..Len(rest)
    /\ LET textPart == SubSeq(rest, 1, k)
           lines == Split(textPart, NL)
       IN /\ responseBuffer' = responseBuffer \o textPart
          /\ lineBuffer' = Last(lines)
          /\ todo' = processLines(variant, ButLast(lines))
          /\ rest' = SubSeq(rest, k + 1, Len(rest))
          /\ pc' = NextPc(todo', "no")
          /\ splitMidLine' = (splitMidLine
                               \/ (lineBuffer' # <<>> /\ rest' # <<>>
                                   /\ Head(rest') # NL))
    /\ UNCHANGED <<variant, response, ended, calls, status, arrival,
                   returned, persisted>>
    /\ UNCHANGED <<sessionVars, auxVars>>

\* NextChunk dispatching only the first of the lines a chunk completes
NextChunk_FirstLineOnly(k) ==
    /\ pc = "stream"
    /\ ended = "no"
    /\ k \in 1..Len(rest)
    /\ LET textPart == SubSeq(rest, 1, k)
           lines == Split(lineBuffer \o textPart, NL)
       IN /\ responseBuffer' = responseBuffer \o textPart
          /\ lineBuffer' = Last(lines)
          /\ todo' = processLines(variant,
                                  IF Len(lines) > 1 THEN <<Head(lines)>>
                                  ELSE <<>>)
          /\ rest' = SubSeq(rest, k + 1, Len(rest))
          /\ pc' = NextPc(todo', "no")
          /\ splitMidLine' = (splitMidLine
                               \/ (lineBuffer' # <<>> /\ rest' # <<>>
                                   /\ Head(rest') # NL))
    /\ UNCHANGED <<variant, response, ended, calls, status, arrival,
                   returned, persisted>>
    /\ UNCHANGED <<sessionVars, auxVars>>

\* one iteration of "for await (const textPart of ...textStream)": the
\* chunk is the next k characters of the response
NextChunk(k) ==
    /\ pc = "stream"
    /\ ended = "no"
    /\ k \in 1..Len(rest)
    /\ LET textPart == SubSeq(rest, 1, k)
           lines == Split(lineBuffer \o textPart, NL)
       IN /\ responseBuffer' = responseBuffer \o textPart
          /\ lineBuffer' = Last(lines)
          /\ todo' = processLines(variant, ButLast(lines))
          /\ rest' = SubSeq(rest, k + 1, Len(rest))
          /\ pc' = NextPc(todo', "no")
          /\ splitMidLine' = (splitMidLine
                               \/ (lineBuffer' # <<>> /\ rest' # <<>>
                                   /\ Head(rest') # NL))
    /\ UNCHANGED <<variant, response, ended, calls, status, arrival,
                   returned, persisted>>
    /\ UNCHANGED <<sessionVars, auxVars>>

\* the stream terminates: the remaining content of the line buffer
StreamEnd ==
    /\ pc = "stream"
    /\ ended = "no"
    /\ rest = <<>>
    /\ todo' = processRemaining(variant, lineBuffer)
    /\ ended' = "end"
    /\ pc' = NextPc(todo', "end")
    /\ UNCHANGED <<variant, response, rest, responseBuffer, lineBuffer,
                   calls, status, arrival, returned, persisted, splitMidLine>>
    /\ UNCHANGED <<sessionVars, auxVars>>

\* the model call errors, before the first chunk or between two chunks.
\* reply.ts and brdist/index.ts catch the error and send the notice;
\* llm.ts generateResponse catches it and yields the notice as one more
\* chunk, after which the loop of bot.ts ends normally
StreamFail ==
    /\ pc = "stream"
    /\ ended = "no"
    /\ ended' = "fail"
    /\ IF variant = "bot"
       THEN LET lines == Split(lineBuffer \o ErrorNotice, NL)
            IN /\ responseBuffer' = responseBuffer \o ErrorNotice
               /\ lineBuffer' = Last(lines)
               /\ todo' = processLines(variant, ButLast(lines))
                          \o processRemaining(variant, Last(lines))
       ELSE /\ todo' = <<Message(ErrorNotice, TRUE)>>
            /\ UNCHANGED <<responseBuffer, lineBuffer>>
    /\ pc' = NextPc(todo', "fail")
    /\ UNCHANGED <<variant, response, rest, calls, status, arrival,
                   returned, persisted, splitMidLine>>
    /\ UNCHANGED <<sessionVars, auxVars>>

\* Issue giving up on the calls still to make when an awaited call fails
Issue_AbortOnFailure(ok) ==
    /\ pc = "dispatch"
    /\ LET op == Head(todo)
       IN /\ calls' = Append(calls, Call(op))
          /\ IF op.aw
             THEN /\ ok \/ Failures < MaxFail
                  /\ status' = Append(status, IF ok THEN "ok" ELSE "failed")
                  /\ arrival' = IF IsSend(op)
                                THEN Append(arrival, Len(calls) + 1)
                                ELSE arrival
             ELSE /\ ok
                  /\ status' = Append(status, "inflight")
                  /\ arrival' = arrival
          /\ todo' = IF op.aw /\ ~ok THEN <<>> ELSE Tail(todo)
    /\ pc' = NextPc(todo', ended)
    /\ UNCHANGED <<variant, response, rest, responseBuffer, lineBuffer,
                   ended, returned, persisted, splitMidLine>>
    /\ UNCHANGED <<sessionVars, auxVars>>

\* Issue holding the next call back until no earlier call is in flight
Issue_WaitsForDelivery(ok) ==
    /\ pc = "dispatch"
    /\ \A i \in 1..Len(status) : status[i] # "inflight"
    /\ LET op == Head(todo)
       IN /\ calls' = Append(calls, Call(op))
          /\ IF op.aw
             THEN /\ ok \/ Failures < MaxFail
                  /\ status' = Append(status, IF ok THEN "ok" ELSE "failed")
                  /\ arrival' = IF IsSend(op)
                                THEN Append(arrival, Len(calls) + 1)
                                ELSE arrival
             ELSE /\ ok
                  /\ status' = Append(status, "inflight")
                  /\ arrival' = arrival
    /\ todo' = Tail(todo)
    /\ pc' = NextPc(todo', ended)
    /\ UNCHANGED <<variant, response, rest, responseBuffer, lineBuffer,
                   ended, returned, persisted, splitMidLine>>
    /\ UNCHANGED <<sessionVars, auxVars>>

\* the dispatcher issues the next Messenger call.  An awaited call is
\* completed (ok or failed) before the dispatcher goes on; a call that is
\* not awaited stays in flight
Issue(ok) ==
    /\ pc = "dispatch"
    /\ LET op == Head(todo)
       IN /\ calls' = Append(calls, Call(op))
          /\ IF op.aw
             THEN /\ ok \/ Failures < MaxFail
                  /\ status' = Append(status, IF ok THEN "ok" ELSE "failed")
                  /\ arrival' = IF IsSend(op)
                                THEN Append(arrival, Len(calls) + 1)
                                ELSE arrival
             ELSE /\ ok
                  /\ status' = Append(status, "inflight")
                  /\ arrival' = arrival
    /\ todo' = Tail(todo)
    /\ pc' = NextPc(todo', ended)
    /\ UNCHANGED <<variant, response, rest, responseBuffer, lineBuffer,
                   ended, returned, persisted, splitMidLine>>
    /\ UNCHANGED <<sessionVars, auxVars>>

\* a send in flight reaches the Messenger and completes (the outcome of a
\* typing indicator that is not awaited is never observed)
Complete(i, ok) ==
    /\ i \in 1..Len(calls)
    /\ status[i] = "inflight"
    /\ IsSend(calls[i])
    /\ ok \/ Failures < MaxFail
    /\ status' = [status EXCEPT ![i] = IF ok THEN "ok" ELSE "failed"]
    /\ arrival' = Append(arrival, i)
    /\ UNCHANGED <<variant, response, rest, responseBuffer, lineBuffer,
                   todo, ended, pc, calls, returned, persisted,
                   splitMidLine>>
    /\ UNCHANGED <<sessionVars, auxVars>>

\* the text handed over for persistence and the assistant turn stored:
\* reply() returns the buffer, or the notice from its catch block, and
\* processMessage stores what it returns; bot.ts stores responseBuffer;
\* brdist stores a non-blank responseBuffer and nothing from its catch
Persist ==
    /\ pc = "persist"
    /\ returned' = CASE variant = "reply" ->
                          IF ended = "fail" THEN ErrorNotice
                          ELSE responseBuffer
                     [] variant = "bot" -> responseBuffer
                     [] variant = "brdist" ->
                          IF ended = "fail" THEN None ELSE responseBuffer
                     [] variant = "framework" ->
                          IF ended = "fail" THEN None ELSE responseBuffer
    /\ persisted' = IF variant = "brdist" /\ returned' # None
                       /\ Len(Trim(returned')) = 0
                    THEN None
                    ELSE returned'
    /\ pc' = "done"
    /\ UNCHANGED <<variant, response, rest, responseBuffer, lineBuffer,
                   todo, ended, calls, status, arrival, splitMidLine>>
    /\ UNCHANGED <<sessionVars, auxVars>>

\* ------------------------------------------------------------ handlers
\* what the model may answer; an answer that is exactly "/clear" is stored
\* like any other
AssistantTexts == {"ok", CLEAR}

\* message.caption || '[Image uploaded]'
Captions == {"[Image uploaded]", CLEAR}

\* hours that pass between two handlers
Gaps == {24, 25}

InitSession ==
    /\ botEmail \in BotEmails
    /\ StoreEmpty
    /\ AuxIdle
    /\ variant = "reply"
    /\ response = <<>>
    /\ rest = <<>>
    /\ responseBuffer = <<>>
    /\ lineBuffer = <<>>
    /\ todo = <<>>
    /\ ended = "no"
    /\ pc = "idle"
    /\ calls = <<>>
    /\ status = <<>>
    /\ arrival = <<>>
    /\ returned = None
    /\ persisted = None
    /\ splitMidLine = FALSE

\* a handler has run from st0 to st: its effects on the store
Handled(st, op, failAt, hist) ==
    /\ opCount < MaxOps
    /\ failAt = 0 \/ (storeFailures < MaxStoreFail /\ failAt <= st.n)
    /\ turns' = st.turns
    /\ userContext' = st.ctx
    /\ distills' = st.log
    /\ resolves' = st.res
    /\ history' = hist
    /\ lastOp' = op
    /\ opCount' = opCount + 1
    /\ storeFailures' = storeFailures + st.fails
    /\ UNCHANGED <<botEmail, now, streamVars, auxVars>>

\* index.ts processMessage, text branch: getChatHistory is called without
\* the email; both turns are stored with botConfig.user_email
TextMessage(assistantResponse, failAt, llm) ==
    LET st1 == upsertTelegramUser(Db, botEmail, failAt)
        h == getChatHistory(st1, Undefined, now, failAt, llm)
        st2 == addMessageToHistory(h.st, botEmail, "user", "hi", now,
                                   failAt, llm)
        st3 == addMessageToHistory(st2, botEmail, "assistant",
                                   assistantResponse, now, failAt, llm)
    IN Handled(st3, "text", failAt,
               [session |-> h.session, rows |-> h.rows])

\* index.ts processMessage, image branch
ImageMessage(caption, assistantResponse, failAt, llm) ==
    LET st1 == upsertTelegramUser(Db, botEmail, failAt)
        st2 == addMessageToHistory(st1, botEmail, "user", caption, now,
                                   failAt, llm)
        st3 == addMessageToHistory(st2, botEmail, "assistant",
                                   assistantResponse, now, failAt, llm)
    IN Handled(st3, "image", failAt, NoHistory)

\* index.ts handleClearCommand: clearChatHistory is called without the
\* email, whose default is ''
handleClearCommand(failAt, llm) ==
    Handled(clearChatHistory(Db, "", now, failAt, llm), "clear", failAt,
            NoHistory)

\* index.ts handleStartCommand: the welcome message, then clearChatHistory
handleStartCommand(failAt, llm) ==
    Handled(clearChatHistory(Db, "", now, failAt, llm), "start", failAt,
            NoHistory)

\* time passes between two inbound messages
Tick(d) ==
    /\ now + d <= MaxNow
    /\ now' = now + d
    /\ UNCHANGED <<botEmail, turns, userContext, distills, resolves,
                   history, lastOp, opCount, storeFailures, streamVars,
                   auxVars>>

FailPoints == 0..12

NextSession ==
    \/ \E r \in AssistantTexts, f \in FailPoints, l \in LlmOutcomes :
           TextMessage(r, f, l)
    \/ \E c \in Captions, r \in AssistantTexts, f \in FailPoints,
          l \in LlmOutcomes : ImageMessage(c, r, f, l)
    \/ \E f \in FailPoints, l \in LlmOutcomes : handleClearCommand(f, l)
    \/ \E f \in FailPoints, l \in LlmOutcomes : handleStartCommand(f, l)
    \/ \E d \in Gaps : Tick(d)

SessionSpec == InitSession /\ [][NextSession]_vars

\* ------------------------------------------------------ single lines
\* the characters of a line after its prefix
BodyChars == {"a", "b", SP, SEMI}

Bodies == UNION { [1..n -> BodyChars] : n \in 0..MaxBody }

\* the prefixes a line may begin with, the "CONCLUSION " of TELEGRAM.md
\* included
Prefixes == {<<>>, TG_IMAGE, TG_CONCLUSION, LEGACY_CONCLUSION}

\* the response is one completed line
InitLine ==
    /\ variant \in LineVariants
    /\ response \in { p \o b \o <<NL>> : p \in Prefixes, b \in Bodies }
    /\ rest = response
    /\ responseBuffer = <<>>
    /\ lineBuffer = <<>>
    /\ todo = <<>>
    /\ ended = "no"
    /\ pc = "stream"
    /\ calls = <<>>
    /\ status = <<>>
    /\ arrival = <<>>
    /\ returned = None
    /\ persisted = None
    /\ splitMidLine = FALSE
    /\ botEmail = "owner"
    /\ StoreEmpty
    /\ AuxIdle

\* the line arrives in one chunk, its calls are issued, the stream ends
NextLine ==
    \/ \E k \in {Len(rest)} : NextChunk(k)
    \/ StreamEnd
    \/ \E ok \in BOOLEAN : Issue(ok)
    \/ \E i \in 1..Len(calls), ok \in BOOLEAN : Complete(i, ok)
    \/ Persist

LineSpec == InitLine /\ [][NextLine]_vars

\* ------------------------------------------------------------- brdist
\* no response is being generated and the generic-bot store is empty
CoreIdle ==
    /\ variant = "reply"
    /\ response = <<>>
    /\ rest = <<>>
    /\ responseBuffer = <<>>
    /\ lineBuffer = <<>>
    /\ todo = <<>>
    /\ ended = "no"
    /\ pc = "idle"
    /\ calls = <<>>
    /\ status = <<>>
    /\ arrival = <<>>
    /\ returned = None
    /\ persisted = None
    /\ splitMidLine = FALSE
    /\ botEmail = "owner"
    /\ StoreEmpty

\* BRDSession.status
BrdStatuses == {"active", "completed", "exported"}

\* the datastore as one brdist handler sees it; n counts its calls, failed
\* names those that failed
Datastore == [sessions |-> brdSessions, messages |-> brdMessages,
              specs |-> specs, n |-> 0, failed |-> {}]

\* the call numbered failAt of a handler fails (0: none fails)
DatastoreCall(ds, name, failAt) ==
    [ds EXCEPT !.n = @ + 1,
               !.failed = IF ds.n + 1 = failAt THEN @ \cup {name} ELSE @]

\* SupabaseDatastoreAdapter.getBRDSession: .eq('status','active').single()
\* gives an error unless exactly one row matches; id 0 stands for null
getBRDSession(ds, failAt) ==
    LET ds1 == DatastoreCall(ds, "getBRDSession", failAt)
        active == {i \in 1..Len(ds1.sessions) : ds1.sessions[i] = "active"}
    IN [ds |-> ds1,
        id |-> IF CallFailed(ds1, failAt) \/ Cardinality(active) # 1 THEN 0
               ELSE CHOOSE i \in active : TRUE]

\* SupabaseDatastoreAdapter.createBRDSession with status 'active'
createBRDSession(ds, failAt) ==
    LET ds1 == DatastoreCall(ds, "createBRDSession", failAt)
    IN IF CallFailed(ds1, failAt) THEN [ds |-> ds1, id |-> 0]
       ELSE [ds |-> [ds1 EXCEPT !.sessions = Append(@, "active")],
             id |-> Len(ds1.sessions) + 1]

\* SupabaseDatastoreAdapter.updateBRDSession
updateBRDSession(ds, id, st, failAt) ==
    LET ds1 == DatastoreCall(ds, "updateBRDSession", failAt)
    IN IF CallFailed(ds1, failAt) THEN ds1
       ELSE [ds1 EXCEPT !.sessions[id] = st]

\* createMessage putting the row in the place of the last one
createMessage_Overwrites(ds, role, text, failAt) ==
    LET ds1 == DatastoreCall(ds, "createMessage", failAt)
    IN IF CallFailed(ds1, failAt) THEN ds1
       ELSE [ds1 EXCEPT !.messages =
                 IF @ = <<>> THEN <<[role |-> role, message_text |-> text]>>
                 ELSE ButLast(@)
                      \o <<[role |-> role, message_text |-> text]>>]

\* SupabaseDatastoreAdapter.createMessage
createMessage(ds, role, text, failAt) ==
    LET ds1 == DatastoreCall(ds, "createMessage", failAt)
    IN IF CallFailed(ds1, failAt) THEN ds1
       ELSE [ds1 EXCEPT !.messages =
                 Append(@, [role |-> role, message_text |-> text])]

\* SupabaseDatastoreAdapter.getMessages: [] on error
getMessages(ds, failAt) ==
    LET ds1 == DatastoreCall(ds, "getMessages", failAt)
    IN [ds |-> ds1,
        rows |-> IF CallFailed(ds1, failAt) THEN <<>> ELSE ds1.messages]

\* SupabaseDatastoreAdapter.deleteMessages
deleteMessages(ds, failAt) ==
    LET ds1 == DatastoreCall(ds, "deleteMessages", failAt)
    IN IF CallFailed(ds1, failAt) THEN ds1
       ELSE [ds1 EXCEPT !.messages = <<>>]

\* deleteBRDSessions removing the active rows only
deleteBRDSessions_ActiveOnly(ds, failAt) ==
    LET ds1 == DatastoreCall(ds, "deleteBRDSessions", failAt)
    IN IF CallFailed(ds1, failAt) THEN ds1
       ELSE [ds1 EXCEPT !.sessions =
                 SelectSeq(@, LAMBDA x : x # "active")]

\* SupabaseDatastoreAdapter.deleteBRDSessions
deleteBRDSessions(ds, failAt) ==
    LET ds1 == DatastoreCall(ds, "deleteBRDSessions", failAt)
    IN IF CallFailed(ds1, failAt) THEN ds1
       ELSE [ds1 EXCEPT !.sessions = <<>>]

\* a brdist handler has run: its effects on the datastore and what it sent
BrdHandled(ds, op, sent, failAt) ==
    /\ brdOps < MaxOps
    /\ failAt = 0 \/ (brdFailures < MaxStoreFail /\ failAt <= ds.n)
    /\ brdSessions' = ds.sessions
    /\ brdMessages' = ds.messages
    /\ brdSent' = sent
    /\ brdLastOp' = op
    /\ brdOps' = brdOps + 1
    /\ brdFailures' = brdFailures + Cardinality(ds.failed)
    /\ brdFailed' = ds.failed
    /\ UNCHANGED <<streamVars, sessionVars, hookVars, distVars, lateVars>>

\* brdist/index.ts handleStartCommand
brdistHandleStartCommand(failAt) ==
    LET ds1 == deleteMessages(Datastore, failAt)
        ds2 == deleteBRDSessions(ds1, failAt)
        ds3 == createBRDSession(ds2, failAt).ds
    IN BrdHandled(ds3, "start", <<"welcome">>, failAt)

\* brdist/index.ts handleClearCommand
brdistHandleClearCommand(failAt) ==
    LET ds1 == deleteMessages(Datastore, failAt)
        ds2 == deleteBRDSessions(ds1, failAt)
        ds3 == createBRDSession(ds2, failAt).ds
    IN BrdHandled(ds3, "clear", <<"new session">>, failAt)

\* brdist/index.ts handleTextMessage; the calls made for the lines of the
\* response are one "reply"
brdistHandleTextMessage(failAt, streamEnded, isComplete) ==
    LET found == getBRDSession(Datastore, failAt)
        session == IF found.id = 0 THEN createBRDSession(found.ds, failAt)
                   ELSE found
        ds1 == createMessage(session.ds, "user", "hi", failAt)
        conversationHistory == getMessages(ds1, failAt)
        ds2 == updateBRDSession(conversationHistory.ds, session.id,
                                conversationHistory.ds.sessions[session.id],
                                failAt)
        ds3 == IF isComplete
               THEN updateBRDSession(ds2, session.id, "completed", failAt)
               ELSE ds2
        ds4 == createMessage(ds3, "assistant", "ok", failAt)
    IN IF session.id = 0
       THEN BrdHandled(session.ds, "text", <<"session error">>, failAt)
       ELSE IF streamEnded = "fail"
       THEN BrdHandled(conversationHistory.ds, "text",
                       <<"reply", "stream error">>, failAt)
       ELSE BrdHandled(ds4, "text",
                       IF isComplete THEN <<"reply", "completed">>
                       ELSE <<"reply">>,
                       failAt)

\* the rows the (user, chat) holds when the first handler runs
InitBrd ==
    /\ CoreIdle
    /\ LateIdle
    /\ brdSessions \in UNION { [1..n -> BrdStatuses] : n \in 0..MaxSessions }
    /\ brdMessages \in {<<>>,
                        <<[role |-> "user", message_text |-> "hi"]>>,
                        <<[role |-> "user", message_text |-> "hi"],
                          [role |-> "assistant", message_text |-> "ok"]>>}
    /\ brdSent = <<>>
    /\ brdLastOp = None
    /\ brdOps = 0
    /\ brdFailures = 0
    /\ brdFailed = {}
    /\ hookApp = None
    /\ hookKind = None
    /\ hookPc = "idle"
    /\ hookTask = None
    /\ hookSteps = <<>>
    /\ hookAck = <<>>
    /\ distContext = <<>>
    /\ distProc = <<>>
    /\ distWrites = <<>>

BrdFailPoints == 0..6

NextBrd ==
    \/ \E f \in BrdFailPoints : brdistHandleStartCommand(f)
    \/ \E f \in BrdFailPoints : brdistHandleClearCommand(f)
    \/ \E f \in BrdFailPoints, e \in {"end", "fail"}, c \in BOOLEAN :
           brdistHandleTextMessage(f, e, c)

BrdSpec == InitBrd /\ [][NextBrd]_vars

\* -------------------------------------------------- brdist documents
\* "Object.keys(session.brd_data).length < 5"
DataKeyCounts == {MinDataKeys - 1, MinDataKeys}

SpecContents == {"a", "b"}

SpecTitles == {"u"}

\* Partial<Spec> as updateSpec is given it: a field is None when absent
SpecUpdates == [title : SpecTitles \cup {None},
                content : SpecContents \cup {None}]

DatastoreAdapters == {"supabase", "memory"}

\* getLatestBRDSession returning the oldest row
getLatestBRDSession_Oldest(ds, failAt) ==
    LET ds1 == DatastoreCall(ds, "getLatestBRDSession", failAt)
    IN [ds |-> ds1,
        id |-> IF CallFailed(ds1, failAt) \/ ds1.sessions = <<>> THEN 0
               ELSE 1]

\* SupabaseDatastoreAdapter.getLatestBRDSession: the newest row of the
\* (user, chat); .single() gives an error when there is none; id 0 stands
\* for null
getLatestBRDSession(ds, failAt) ==
    LET ds1 == DatastoreCall(ds, "getLatestBRDSession", failAt)
    IN [ds |-> ds1,
        id |-> IF CallFailed(ds1, failAt) \/ ds1.sessions = <<>> THEN 0
               ELSE Len(ds1.sessions)]

\* createSpec of both adapters: "version INTEGER NOT NULL DEFAULT 1" in
\* the table, "version: 1" in memory
createSpec(ds, title, content, failAt) ==
    LET ds1 == DatastoreCall(ds, "createSpec", failAt)
    IN IF CallFailed(ds1, failAt) THEN [ds |-> ds1, id |-> 0]
       ELSE [ds |-> [ds1 EXCEPT !.specs =
                         Append(@, [title |-> title, content |-> content,
                                    version |-> 1])],
             id |-> Len(ds1.specs) + 1]

\* { ...spec, ...updates }
Merged(spec, updates) ==
    [spec EXCEPT !.title = IF updates.title = None THEN @
                           ELSE updates.title,
                 !.content = IF updates.content = None THEN @
                             ELSE updates.content]

\* SupabaseDatastoreAdapter.updateSpec with the trigger
\* version_specs_on_update: the version steps only when the content differs;
\* an id that matches no row is no error
SupabaseUpdateSpec(ds, specId, updates, failAt) ==
    LET ds1 == DatastoreCall(ds, "updateSpec", failAt)
        old == ds1.specs[specId]
        new == Merged(old, updates)
    IN IF CallFailed(ds1, failAt)
       THEN [ds |-> ds1, ok |-> FALSE, row |-> FALSE]
       ELSE IF specId \notin 1..Len(ds1.specs)
       THEN [ds |-> ds1, ok |-> TRUE, row |-> FALSE]
       ELSE [ds |-> [ds1 EXCEPT !.specs[specId] =
                         [new EXCEPT !.version =
                              IF old.content # new.content THEN @ + 1
                              ELSE @]],
             ok |-> TRUE, row |-> TRUE]

\* InMemoryDatastoreAdapter.updateSpec: "version: (spec.version || 1) + 1"
InMemoryUpdateSpec(ds, specId, updates) ==
    LET ds1 == DatastoreCall(ds, "updateSpec", 0)
        old == ds1.specs[specId]
    IN IF specId \notin 1..Len(ds1.specs)
       THEN [ds |-> ds1, ok |-> FALSE, row |-> FALSE]
       ELSE [ds |-> [ds1 EXCEPT !.specs[specId] =
                         [Merged(old, updates) EXCEPT !.version =
                              (IF old.version = 0 THEN 1 ELSE old.version)
                              + 1]],
             ok |-> TRUE, row |-> TRUE]

\* a document command or a spec update has run
DocHandled(ds, op, sent, failAt) ==
    /\ brdOps < MaxOps
    /\ failAt = 0 \/ (brdFailures < MaxStoreFail /\ failAt <= ds.n)
    /\ brdSessions' = ds.sessions
    /\ brdMessages' = ds.messages
    /\ specs' = ds.specs
    /\ brdSent' = sent
    /\ brdLastOp' = op
    /\ brdOps' = brdOps + 1
    /\ brdFailures' = brdFailures + Cardinality(ds.failed)
    /\ brdFailed' = ds.failed
    /\ UNCHANGED <<brdData, streamVars, sessionVars, hookVars, distVars,
                   raceVars, replyVars, brdTaskVars>>

\* brdist/index.ts handleGenerateCommand; an error of the stream leaves the
\* handler as an exception
brdistHandleGenerateCommand(failAt, streamEnded) ==
    LET session == getLatestBRDSession(Datastore, failAt)
        conversationHistory == getMessages(session.ds, failAt)
        ds1 == updateBRDSession(conversationHistory.ds, session.id,
                                "exported", failAt)
    IN IF session.id = 0 \/ brdData[session.id] < MinDataKeys
       THEN DocHandled(session.ds, "generate", <<"need more">>, failAt)
       ELSE IF streamEnded = "fail"
       THEN DocHandled(conversationHistory.ds, "generate", <<>>, failAt)
       ELSE DocHandled(ds1, "generate", <<"document", "generated">>, failAt)

\* brdist/index.ts handleSpecCommand as processWebhookMessage calls it: an
\* exception is answered with an apology
brdistHandleSpecCommand(failAt, streamEnded) ==
    LET session == getLatestBRDSession(Datastore, failAt)
        conversationHistory == getMessages(session.ds, failAt)
        spec == createSpec(conversationHistory.ds, "t", "a", failAt)
    IN IF session.id = 0 \/ brdData[session.id] < MinDataKeys
       THEN DocHandled(session.ds, "spec", <<"need more">>, failAt)
       ELSE IF streamEnded = "fail"
       THEN DocHandled(conversationHistory.ds, "spec",
                       <<"generating", "spec error">>, failAt)
       ELSE IF spec.id = 0
       THEN DocHandled(spec.ds, "spec", <<"generating", "save error">>,
                       failAt)
       ELSE DocHandled(spec.ds, "spec",
                       <<"generating", "spec", "generated">>, failAt)

\* DatastoreAdapter.updateSpec, of either adapter; what is "sent" is the
\* adapter, the value returned and whether a row was updated
UpdateSpec(adapter, specId, updates, failAt) ==
    LET r == IF adapter = "memory"
             THEN InMemoryUpdateSpec(Datastore, specId, updates)
             ELSE SupabaseUpdateSpec(Datastore, specId, updates, failAt)
    IN /\ adapter = "memory" => failAt = 0
       /\ DocHandled(r.ds, "updateSpec",
                     <<adapter, IF r.ok THEN "true" ELSE "false",
                       IF r.row THEN "updated" ELSE "no row">>, failAt)

\* the rows the (user, chat) holds when the first command runs
InitDoc ==
    /\ CoreIdle
    /\ brdSessions \in UNION { [1..n -> BrdStatuses] : n \in 0..MaxSessions }
    /\ brdData \in [1..Len(brdSessions) -> DataKeyCounts]
    /\ brdMessages = <<[role |-> "user", message_text |-> "hi"]>>
    /\ specs \in {<<>>, <<[title |-> "t", content |-> "a", version |-> 1]>>}
    /\ RaceIdle
    /\ TasksIdle
    /\ brdSent = <<>>
    /\ brdLastOp = None
    /\ brdOps = 0
    /\ brdFailures = 0
    /\ brdFailed = {}
    /\ hookApp = None
    /\ hookKind = None
    /\ hookPc = "idle"
    /\ hookTask = None
    /\ hookSteps = <<>>
    /\ hookAck = <<>>
    /\ distContext = <<>>
    /\ distProc = <<>>
    /\ distWrites = <<>>

DocFailPoints == 0..3

NextDoc ==
    \/ \E f \in DocFailPoints, e \in {"end", "fail"} :
           brdistHandleGenerateCommand(f, e)
    \/ \E f \in DocFailPoints, e \in {"end", "fail"} :
           brdistHandleSpecCommand(f, e)
    \/ \E a \in DatastoreAdapters, i \in 1..(Len(specs) + 1),
          u \in SpecUpdates, f \in 0..1 : UpdateSpec(a, i, u, f)

DocSpec == InitDoc /\ [][NextDoc]_vars

\* two units of work under way at the same time
Procs == {1, 2}

\* ------------------------------------------- overlapping messages
\* no response is being generated
StreamIdle ==
    /\ variant = "reply"
    /\ response = <<>>
    /\ rest = <<>>
    /\ responseBuffer = <<>>
    /\ lineBuffer = <<>>
    /\ todo = <<>>
    /\ ended = "no"
    /\ pc = "idle"
    /\ calls = <<>>
    /\ status = <<>>
    /\ arrival = <<>>
    /\ returned = None
    /\ persisted = None
    /\ splitMidLine = FALSE

\* the texts a handler appends, in order: processMessage stores the user
\* turn and the assistant turn, clearChatHistory the marker
RaceAppends(kind) ==
    IF kind = "text" THEN <<[role |-> "user", text |-> "hi"],
                            [role |-> "assistant", text |-> "ok"]>>
    ELSE <<[role |-> "user", text |-> CLEAR]>>

RaceFrame ==
    UNCHANGED <<botEmail, resolves, history, lastOp, opCount, storeFailures,
                streamVars, brdVars, hookVars, distVars, docVars, replyVars,
                brdTaskVars>>

\* addMessageToHistory / addClearMessage of task p up to the await of
\* getCurrentSession: the latest turn is read now
RaceResolve(p, llm) ==
    LET cur == getCurrentSession(Db, botEmail, now, 0, llm)
    IN /\ raceTask[p].pc = "resolve"
       /\ raceTask' = [raceTask EXCEPT ![p].pc = "insert",
                                       ![p].sessionNumber = cur.session]
       /\ userContext' = cur.st.ctx
       /\ distills' = cur.st.log
       /\ UNCHANGED <<now, turns>>
       /\ RaceFrame

\* the insert of task p, with the session number it resolved earlier;
\* addClearMessage enriches the context first
RaceInsert(p, llm) ==
    LET task == raceTask[p]
        row == RaceAppends(task.kind)[task.done + 1]
        st1 == IF task.kind = "clear"
               THEN enrichUserContext(Db, botEmail, task.sessionNumber, 0,
                                      llm).st
               ELSE Db
        st2 == Insert(st1, botEmail, row.role, row.text, task.sessionNumber,
                      now, 0)
    IN /\ task.pc = "insert"
       /\ raceTask' = [raceTask EXCEPT
              ![p].done = @ + 1,
              ![p].pc = IF task.done + 1 = Len(RaceAppends(task.kind))
                        THEN "done" ELSE "resolve"]
       /\ turns' = st2.turns
       /\ userContext' = st2.ctx
       /\ distills' = st2.log
       /\ UNCHANGED now
       /\ RaceFrame

\* an hour passes while the messages are handled
RaceTick ==
    /\ now < MaxNow
    /\ \E p \in Procs : raceTask[p].pc # "done"
    /\ now' = now + 1
    /\ UNCHANGED <<turns, userContext, distills, raceTask>>
    /\ RaceFrame

\* two messages of the same scope have arrived; the scope is empty or holds
\* one turn that is 23 hours old
InitRace ==
    /\ StreamIdle
    /\ botEmail = "owner"
    /\ now = SessionTimeoutHours - 1
    /\ turns \in {<<>>,
                  <<[user_email |-> "owner", role |-> "user",
                     message_text |-> "hi", session |-> 1,
                     created_at |-> 0]>>}
    /\ userContext = [e \in AllEmails |-> [row |-> TRUE, context |-> <<>>]]
    /\ distills = <<>>
    /\ resolves = <<>>
    /\ history = NoHistory
    /\ lastOp = None
    /\ opCount = 0
    /\ storeFailures = 0
    /\ raceTask \in [Procs -> [kind : {"text", "clear"}, pc : {"resolve"},
                               sessionNumber : {0}, done : {0}]]
    /\ DocIdle
    /\ TasksIdle
    /\ brdSessions = <<>>
    /\ brdMessages = <<>>
    /\ brdSent = <<>>
    /\ brdLastOp = None
    /\ brdOps = 0
    /\ brdFailures = 0
    /\ brdFailed = {}
    /\ hookApp = None
    /\ hookKind = None
    /\ hookPc = "idle"
    /\ hookTask = None
    /\ hookSteps = <<>>
    /\ hookAck = <<>>
    /\ distContext = <<>>
    /\ distProc = <<>>
    /\ distWrites = <<>>

NextRace ==
    \/ \E p \in Procs, l \in LlmOutcomes : RaceResolve(p, l)
    \/ \E p \in Procs, l \in LlmOutcomes : RaceInsert(p, l)
    \/ RaceTick

RaceSpec == InitRace /\ [][NextRace]_vars

\* ------------------------------------------- overlapping responses
\* the character the model of task p writes, besides newlines
TaskChar(p) == IF p = 1 THEN "a" ELSE "b"

\* the responses the model may stream to task p
TaskResponses(p) ==
    UNION { [1..n -> {TaskChar(p), NL}] : n \in 1..(MaxLines + 1) }

\* the loop body of reply() with lineBuffer declared at module level: the
\* calls under way read and write the same buffer
ReplyChunk_SharedBuffer(tasks, p, k) ==
    LET task == tasks[p]
        textPart == SubSeq(task.rest, 1, k)
        lines == Split(task.lineBuffer \o textPart, NL)
    IN [q \in Procs |->
           IF q = p
           THEN [task EXCEPT
                    !.rest = SubSeq(@, k + 1, Len(@)),
                    !.assistantResponseBuffer = @ \o textPart,
                    !.lineBuffer = Last(lines),
                    !.sent = @ \o processLines("reply", ButLast(lines))]
           ELSE [tasks[q] EXCEPT !.lineBuffer = Last(lines)]]

\* one iteration of "for await (const textPart of result.textStream)" in
\* the reply() call p: assistantResponseBuffer and lineBuffer are its locals
ReplyChunk(tasks, p, k) ==
    LET task == tasks[p]
        textPart == SubSeq(task.rest, 1, k)
        lines == Split(task.lineBuffer \o textPart, NL)
    IN [tasks EXCEPT ![p] =
           [task EXCEPT
               !.rest = SubSeq(@, k + 1, Len(@)),
               !.assistantResponseBuffer = @ \o textPart,
               !.lineBuffer = Last(lines),
               !.sent = @ \o processLines("reply", ButLast(lines))]]

\* the stream of call p terminates: the remaining content, then
\* "return assistantResponseBuffer"
ReplyEnd(tasks, p) ==
    [tasks EXCEPT ![p] =
        [tasks[p] EXCEPT
            !.sent = @ \o processRemaining("reply", tasks[p].lineBuffer),
            !.ended = "end",
            !.returned = tasks[p].assistantResponseBuffer]]

\* the stream of call p errors: the catch block sends the notice and
\* returns it
ReplyCatch(tasks, p) ==
    [tasks EXCEPT ![p] =
        [tasks[p] EXCEPT
            !.sent = Append(@, Message(ErrorNotice, TRUE)),
            !.ended = "fail",
            !.returned = ErrorNotice]]

ReplyFrame ==
    UNCHANGED <<streamVars, sessionVars, brdVars, hookVars, distVars,
                docVars, raceVars, brdTaskVars>>

ReplyNextChunk(p, k) ==
    /\ replyTask[p].ended = "no"
    /\ k \in 1..Len(replyTask[p].rest)
    /\ replyTask' = ReplyChunk(replyTask, p, k)
    /\ ReplyFrame

ReplyStreamEnd(p) ==
    /\ replyTask[p].ended = "no"
    /\ replyTask[p].rest = <<>>
    /\ replyTask' = ReplyEnd(replyTask, p)
    /\ ReplyFrame

ReplyStreamFail(p) ==
    /\ replyTask[p].ended = "no"
    /\ replyTask' = ReplyCatch(replyTask, p)
    /\ ReplyFrame

\* two reply() calls have been made and none has read a chunk
InitReplies ==
    /\ CoreIdle
    /\ AuxIdleBut
    /\ DocIdle
    /\ RaceIdle
    /\ brdTask = <<>>
    /\ \E r1 \in TaskResponses(1), r2 \in TaskResponses(2) :
           replyTask = [p \in Procs |->
               [response |-> IF p = 1 THEN r1 ELSE r2,
                rest |-> IF p = 1 THEN r1 ELSE r2,
                assistantResponseBuffer |-> <<>>,
                lineBuffer |-> <<>>,
                sent |-> <<>>,
                ended |-> "no",
                returned |-> None]]

NextReplies ==
    \/ \E p \in Procs, k \in 1..(MaxLines + 1) : ReplyNextChunk(p, k)
    \/ \E p \in Procs : ReplyStreamEnd(p)
    \/ \E p \in Procs : ReplyStreamFail(p)

RepliesSpec == InitReplies /\ [][NextReplies]_vars

\* ------------------------------------------- overlapping brdist updates
\* the updates of one (user, chat) the server is handling at once: Deno's
\* serve starts a handler per request and a handler yields at every await
BrdTaskKinds == {"text", "start", "clear"}

\* where a handler starts: handleTextMessage at getBRDSession, the two
\* commands at deleteBRDSessions
BrdTaskEntry(kind) == IF kind = "text" THEN "get" ELSE "delete"

BrdTaskFrame ==
    UNCHANGED <<brdMessages, brdSent, brdLastOp, brdOps, brdFailures,
                brdFailed, streamVars, sessionVars, hookVars, distVars,
                docVars, raceVars, replyVars>>

\* "let session = await datastore.getBRDSession(userId, chatId)"
BrdTaskGet(p) ==
    /\ brdTask[p].pc = "get"
    /\ LET found == getBRDSession(Datastore, 0)
       IN brdTask' = [brdTask EXCEPT ![p].session = found.id,
                                     ![p].pc = IF found.id = 0 THEN "create"
                                               ELSE "update"]
    /\ UNCHANGED brdSessions
    /\ BrdTaskFrame

\* "await datastore.deleteBRDSessions(...)" of handleStartCommand and
\* handleClearCommand
BrdTaskDelete(p) ==
    /\ brdTask[p].pc = "delete"
    /\ brdSessions' = deleteBRDSessions(Datastore, 0).sessions
    /\ brdTask' = [brdTask EXCEPT ![p].pc = "create"]
    /\ BrdTaskFrame

\* "await datastore.createBRDSession({..., status: 'active'})"
BrdTaskCreate(p) ==
    /\ brdTask[p].pc = "create"
    /\ LET made == createBRDSession(Datastore, 0)
       IN /\ brdSessions' = made.ds.sessions
          /\ brdTask' = [brdTask EXCEPT
                            ![p].session = made.id,
                            ![p].pc = IF brdTask[p].kind = "text"
                                      THEN "update" ELSE "done"]
    /\ BrdTaskFrame

\* the end of handleTextMessage: "if (isComplete && session.id)
\* updateBRDSession(session.id, { status: 'completed' })"; an update of a
\* row another handler has deleted changes nothing
BrdTaskUpdate(p, isComplete) ==
    /\ brdTask[p].pc = "update"
    /\ brdSessions' =
           IF isComplete /\ brdTask[p].session \in 1..Len(brdSessions)
           THEN updateBRDSession(Datastore, brdTask[p].session,
                                 "completed", 0).sessions
           ELSE brdSessions
    /\ brdTask' = [brdTask EXCEPT ![p].pc = "done"]
    /\ BrdTaskFrame

\* two updates of the same (user, chat) have arrived; the (user, chat)
\* holds no session, one active session or one completed session
InitBrdTasks ==
    /\ CoreIdle
    /\ DocIdle
    /\ RaceIdle
    /\ replyTask = <<>>
    /\ brdSessions \in {<<>>, <<"active">>, <<"completed">>}
    /\ brdMessages = <<>>
    /\ brdSent = <<>>
    /\ brdLastOp = None
    /\ brdOps = 0
    /\ brdFailures = 0
    /\ brdFailed = {}
    /\ hookApp = None
    /\ hookKind = None
    /\ hookPc = "idle"
    /\ hookTask = None
    /\ hookSteps = <<>>
    /\ hookAck = <<>>
    /\ distContext = <<>>
    /\ distProc = <<>>
    /\ distWrites = <<>>
    /\ \E kinds \in [Procs -> BrdTaskKinds] :
           brdTask = [p \in Procs |->
                         [kind |-> kinds[p], pc |-> BrdTaskEntry(kinds[p]),
                          session |-> 0]]

NextBrdTasks ==
    \/ \E p \in Procs : BrdTaskGet(p)
    \/ \E p \in Procs : BrdTaskDelete(p)
    \/ \E p \in Procs : BrdTaskCreate(p)
    \/ \E p \in Procs, c \in BOOLEAN : BrdTaskUpdate(p, c)

BrdTasksSpec == InitBrdTasks /\ [][NextBrdTasks]_vars

\* ------------------------------------------- one scope, call by call
\* a turn of the scope "owner" as the store keeps it
Turn(role, text, sessionNumber, t) ==
    [user_email |-> "owner", role |-> role, message_text |-> text,
     session |-> sessionNumber, created_at |-> t]

\* what the scope may hold when the first call is made: nothing, one turn,
\* a turn and the reset after it, and a turn of the session after the reset
StoredScopes ==
    {<<>>,
     <<Turn("user", "hi", 1, 0)>>,
     <<Turn("user", "hi", 1, 0), Turn("user", CLEAR, 1, 0)>>,
     <<Turn("user", "hi", 1, 0), Turn("user", CLEAR, 1, 0),
       Turn("assistant", "ok", 2, 0)>>}

\* the history is loaded for a message of the scope
LoadHistory(failAt, llm) ==
    LET h == getChatHistory(Db, botEmail, now, failAt, llm)
    IN Handled(h.st, "history", failAt,
               [session |-> h.session, rows |-> h.rows])

\* a turn is appended to the scope
AppendTurn(role, failAt, llm) ==
    Handled(addMessageToHistory(Db, botEmail, role, "hi", now, failAt, llm),
            "append", failAt, NoHistory)

\* the scope is reset
ResetScope(failAt, llm) ==
    Handled(clearChatHistory(Db, botEmail, now, failAt, llm), "reset",
            failAt, NoHistory)

InitScope ==
    /\ StreamIdle
    /\ AuxIdle
    /\ botEmail = "owner"
    /\ now = 0
    /\ turns \in StoredScopes
    /\ userContext = [e \in AllEmails |-> [row |-> e = "owner",
                                           context |-> <<>>]]
    /\ distills = <<>>
    /\ resolves = <<>>
    /\ history = NoHistory
    /\ lastOp = None
    /\ opCount = 0
    /\ storeFailures = 0

ScopeFailPoints == 0..5

NextScope ==
    \/ \E f \in ScopeFailPoints, l \in LlmOutcomes : LoadHistory(f, l)
    \/ \E r \in {"user", "assistant"}, f \in ScopeFailPoints,
          l \in LlmOutcomes : AppendTurn(r, f, l)
    \/ \E f \in ScopeFailPoints, l \in LlmOutcomes : ResetScope(f, l)
    \/ \E d \in Gaps : Tick(d)

ScopeSpec == InitScope /\ [][NextScope]_vars

\* ------------------------------------------- overlapping distillations
\* the store as updateUserContext sees it in this setting: one tg_users
\* row, whose scope is "owner"
DistStore ==
    [Db EXCEPT !.ctx["owner"] = [row |-> TRUE, context |-> distContext]]

DistStep(p, next) ==
    /\ distProc' = [distProc EXCEPT ![p] = next]
    /\ UNCHANGED <<streamVars, sessionVars, brdVars, hookVars, lateVars>>

\* enrichUserContext: "await getUserContext(userId, userEmail)"
DistGetUserContext(p) ==
    /\ distProc[p].pc = "getUserContext"
    /\ DistStep(p, [distProc[p] EXCEPT !.pc = "selectMessages",
                                       !.currentContext = distContext])
    /\ UNCHANGED <<distContext, distWrites>>

\* enrichUserContext: the query for the turns of the session
DistSelectMessages(p, found) ==
    /\ distProc[p].pc = "selectMessages"
    /\ DistStep(p, [distProc[p] EXCEPT !.pc = IF found THEN "generateText"
                                              ELSE "returned"])
    /\ UNCHANGED <<distContext, distWrites>>

\* enrichUserContext: "await generateText(...)" and the length test
DistGenerateText(p, llm) ==
    /\ distProc[p].pc = "generateText"
    /\ DistStep(p, IF llm = "summary"
                   THEN [distProc[p] EXCEPT
                            !.pc = "updateUserContext",
                            !.enrichedContext =
                                Summary(distProc[p].currentContext,
                                        distProc[p].sessionNumber)]
                   ELSE [distProc[p] EXCEPT !.pc = "returned"])
    /\ UNCHANGED <<distContext, distWrites>>

\* enrichUserContext: "await updateUserContext(...)" and the return
DistUpdateUserContext(p, failAt) ==
    /\ distProc[p].pc = "updateUserContext"
    /\ LET updated == updateUserContext(DistStore, "owner",
                                        distProc[p].enrichedContext, failAt)
       IN /\ distContext' = updated.st.ctx["owner"].context
          /\ distWrites' = IF updated.ok
                           THEN Append(distWrites,
                                       [by |-> p,
                                        text |-> distProc[p].enrichedContext])
                           ELSE distWrites
          /\ DistStep(p, [distProc[p] EXCEPT !.pc = "returned",
                                             !.success = updated.ok])

\* both invocations have been called and none has made its first read
InitDist ==
    /\ CoreIdle
    /\ LateIdle
    /\ distContext \in {<<>>, <<0>>}
    /\ distProc \in [Procs -> [pc : {"getUserContext"},
                               sessionNumber : {1, 2},
                               currentContext : {<<>>},
                               enrichedContext : {<<>>},
                               success : {FALSE}]]
    /\ distWrites = <<>>
    /\ brdSessions = <<>>
    /\ brdMessages = <<>>
    /\ brdSent = <<>>
    /\ brdLastOp = None
    /\ brdOps = 0
    /\ brdFailures = 0
    /\ brdFailed = {}
    /\ hookApp = None
    /\ hookKind = None
    /\ hookPc = "idle"
    /\ hookTask = None
    /\ hookSteps = <<>>
    /\ hookAck = <<>>

NextDist ==
    \E p \in Procs :
        \/ DistGetUserContext(p)
        \/ \E found \in BOOLEAN : DistSelectMessages(p, found)
        \/ \E llm \in LlmOutcomes : DistGenerateText(p, llm)
        \/ \E failAt \in {0, 1} : DistUpdateUserContext(p, failAt)

DistSpec == InitDist /\ [][NextDist]_vars

\* ------------------------------------------------------------ webhook
\* the functions that serve a webhook and the inbound messages tried
HookApps == {"generic", "brdist"}

HookKinds == {"text", "/start", "/clear", "/generate"}

\* what the handling of a message does, in order: model generation,
\* Messenger delivery, persistence ("/generate" is an unknown command for
\* generic-bot)
TurnSteps(app, kind) ==
    CASE kind = "text" -> <<"persist", "generate", "deliver", "persist">>
      [] kind = "/start" -> IF app = "generic" THEN <<"deliver", "persist">>
                            ELSE <<"persist", "deliver">>
      [] kind = "/clear" -> <<"persist", "deliver">>
      [] kind = "/generate" ->
           IF app = "generic" THEN <<"deliver">>
           ELSE <<"persist", "generate", "deliver", "persist">>

\* does the request handler await the handling before it responds:
\* generic-bot calls processMessage without await; brdist awaits
\* processWebhookMessage, which awaits every command handler and only
\* starts handleTextMessage
Awaited(app, kind) == app = "brdist" /\ kind # "text"

HookFrame ==
    UNCHANGED <<streamVars, sessionVars, brdVars, distVars, lateVars>>

\* the request handler calls the message handler
HookDispatch ==
    /\ hookPc = "received"
    /\ hookPc' = "dispatched"
    /\ hookTask' = IF Awaited(hookApp, hookKind) THEN "awaited"
                   ELSE "detached"
    /\ UNCHANGED <<hookApp, hookKind, hookSteps, hookAck>>
    /\ HookFrame

\* the handling carries out its next step; a started promise that is not
\* awaited makes no progress before the request handler has returned
HookStep(ok) ==
    /\ \/ hookTask = "awaited"
       \/ hookTask = "detached" /\ hookPc = "acknowledged"
    /\ hookSteps' = Append(hookSteps,
                           [step |-> TurnSteps(hookApp, hookKind)
                                         [Len(hookSteps) + 1],
                            ok |-> ok])
    /\ hookTask' = IF Len(hookSteps') = Len(TurnSteps(hookApp, hookKind))
                   THEN "finished" ELSE hookTask
    /\ UNCHANGED <<hookApp, hookKind, hookPc, hookAck>>
    /\ HookFrame

\* return new Response("OK", { status: 200 })
HookAcknowledge ==
    /\ hookPc = "dispatched"
    /\ hookTask # "awaited"
    /\ hookPc' = "acknowledged"
    /\ hookAck' = <<[body |-> "OK", task |-> hookTask,
                     steps |-> hookSteps]>>
    /\ UNCHANGED <<hookApp, hookKind, hookTask, hookSteps>>
    /\ HookFrame

\* an update with a message has arrived
InitHook ==
    /\ CoreIdle
    /\ LateIdle
    /\ hookApp \in HookApps
    /\ hookKind \in HookKinds
    /\ hookPc = "received"
    /\ hookTask = None
    /\ hookSteps = <<>>
    /\ hookAck = <<>>
    /\ brdSessions = <<>>
    /\ brdMessages = <<>>
    /\ brdSent = <<>>
    /\ brdLastOp = None
    /\ brdOps = 0
    /\ brdFailures = 0
    /\ brdFailed = {}
    /\ distContext = <<>>
    /\ distProc = <<>>
    /\ distWrites = <<>>

NextHook ==
    \/ HookDispatch
    \/ \E ok \in BOOLEAN : HookStep(ok)
    \/ HookAcknowledge

HookSpec == InitHook /\ [][NextHook]_vars

NextStream ==
    \/ \E k \in 1..Len(rest) : NextChunk(k)
    \/ StreamEnd
    \/ StreamFail
    \/ \E ok \in BOOLEAN : Issue(ok)
    \/ \E i \in 1..Len(calls), ok \in BOOLEAN : Complete(i, ok)
    \/ Persist

Spec == InitStream /\ [][NextStream]_vars

\* reply() of llm.ts alone
InitReply ==
    /\ InitStream
    /\ variant = "reply"

\* reply() from its call to its return: the chunks, the end or the failure
\* of the stream, and the Messenger calls; reply() awaits every send, so
\* no send completes later
NextReply ==
    \/ \E k \in 1..Len(rest) : NextChunk(k)
    \/ StreamEnd
    \/ StreamFail
    \/ \E ok \in BOOLEAN : Issue(ok)

\* the runtime resumes a generation whose awaited Messenger call has
\* returned; nothing obliges the model to send a chunk, to end the stream
\* or to fail
FairReplySpec ==
    /\ InitReply
    /\ [][NextReply]_vars
    /\ WF_vars(\E ok \in BOOLEAN : Issue(ok))


\* ------------------------------------------------- dispatcher helpers
RECURSIVE MapCall(_)
MapCall(ops) ==
    IF ops = <<>> THEN <<>> ELSE <<Call(Head(ops))>> \o MapCall(Tail(ops))

IsPrefix(a, b) == Len(a) <= Len(b) /\ SubSeq(b, 1, Len(a)) = a

\* the chunks received so far, concatenated
Received == SubSeq(response, 1, Len(response) - Len(rest))

\* the calls of a text delivered as one single chunk
OneChunkCalls(text) ==
    MapCall(processLines(variant, ButLast(Split(text, NL)))
            \o processRemaining(variant, Last(Split(text, NL))))

\* the calls of the lines of a text that are terminated by a newline
CompletedLineCalls(text) ==
    MapCall(processLines(variant, ButLast(Split(text, NL))))

Sends(cs) == {i \in 1..Len(cs) : IsSend(cs[i])}

Finished == pc \in {"persist", "done"}

\* C1: however the response is split into chunks, the calls issued for it
\* are those of the response delivered as one chunk (hence any two
\* chunkings give the same kinds, arguments and order)
C1_ChunkBoundaryIndependence ==
    (Finished /\ ended = "end") => calls = OneChunkCalls(response)

C1_Witness ==
    /\ pc = "done"
    /\ ended = "end"
    /\ splitMidLine
    /\ Cardinality(Sends(calls)) >= 2
    /\ calls = OneChunkCalls(response)

\* C2: a send is issued only when every earlier send has completed, and
\* sends complete at the Messenger in the order they were issued
C2_SendsAwaitedInOrder ==
    /\ \A i, j \in Sends(calls) : i < j => status[i] # "inflight"
    /\ \A p, q \in 1..Len(arrival) : p < q => arrival[p] < arrival[q]

\* ---------------------------------------------------- session properties
\* the sessions of the stored turns of a scope, in append order, continue
\* from position i on: 1 at the first turn, the session before or one more
\* at every other turn
Continues(s, i) ==
    IF i = 1 THEN s[1].session = 1
    ELSE s[i].session \in {s[i - 1].session, s[i - 1].session + 1}

C4_ResolveRollsOverOnMarkerOrTimeout ==
    \A n \in 1..Len(resolves) :
        LET r == resolves[n]
        IN r.latest # <<>> =>
               r.session = IF r.latest[1].message_text = "/clear"
                               \/ r.at - r.latest[1].created_at > 24
                            THEN r.latest[1].session + 1
                            ELSE r.latest[1].session

\* C4 witness: the last handler resolved a scope whose latest turn was
\* exactly 24 hours old and kept its session, and resolved a scope whose
\* latest turn was the reset marker, written at that very hour, and rolled
\* over
C4_Witness ==
    /\ \E n \in 1..Len(resolves) :
           LET r == resolves[n]
           IN /\ r.latest # <<>>
              /\ r.latest[1].message_text # "/clear"
              /\ r.at - r.latest[1].created_at = 24
              /\ r.session = r.latest[1].session
    /\ \E n \in 1..Len(resolves) :
           LET r == resolves[n]
           IN /\ r.latest # <<>>
              /\ r.latest[1].message_text = "/clear"
              /\ r.at = r.latest[1].created_at
              /\ r.session = r.latest[1].session + 1

\* C5: the distiller is invoked at most once for a session number of a
\* scope
C5_NoDoubleDistillation ==
    \A i, j \in 1..Len(distills) :
        (distills[i].user_email = distills[j].user_email
         /\ distills[i].session = distills[j].session) => i = j

\* C11: a resolution that rolls over because of the time threshold alone
\* invokes the distiller once, for the session of the latest turn, which
\* reads exactly the non-reset turns of that session, and then returns
\* that session plus 1
C11_TimeRolloverDistillsClosingSession ==
    \A n \in 1..Len(resolves) :
        LET r == resolves[n]
        IN (/\ r.latest # <<>>
            /\ r.latest[1].message_text # "/clear"
            /\ r.at - r.latest[1].created_at > 24) =>
               /\ r.session = r.latest[1].session + 1
               /\ Len(r.distilled) = 1
               /\ r.distilled[1].user_email = r.user_email
               /\ r.distilled[1].session = r.latest[1].session
               /\ r.distilled[1].outcome # "read failed" =>
                      r.distilled[1].messages =
                          SelectSeq(turns, LAMBDA m :
                              /\ m.user_email = r.user_email
                              /\ m.session = r.latest[1].session
                              /\ m.message_text # "/clear"
                              /\ m.created_at <= r.latest[1].created_at)

\* C11 witness: 25 hours after a user turn and an assistant turn of
\* session 1 a resolution distilled session 1 over those two turns, the
\* summary was stored, and it returned 2
C11_Witness ==
    \E n \in 1..Len(resolves) :
        LET r == resolves[n]
        IN /\ r.latest # <<>>
           /\ r.latest[1].message_text # "/clear"
           /\ r.at - r.latest[1].created_at = 25
           /\ r.session = 2
           /\ Len(r.distilled) = 1
           /\ r.distilled[1].session = 1
           /\ r.distilled[1].outcome = "stored"
           /\ Len(r.distilled[1].messages) = 2
           /\ r.distilled[1].messages[1].role = "user"
           /\ r.distilled[1].messages[2].role = "assistant"

\* C12: a resolution whose distillation did not store a summary (no
\* turns, model error, summary too short, store failure) still returns
\* the session of the latest turn plus 1
C12_FailedDistillationDoesNotBlockResolve ==
    \A n \in 1..Len(resolves) :
        LET r == resolves[n]
        IN (/\ r.distilled # <<>>
            /\ r.distilled[1].outcome # "stored") =>
               /\ r.latest # <<>>
               /\ r.session = r.latest[1].session + 1

\* C12 witness: the model call of the distiller raised an error during a
\* time-threshold rollover, and the turn appended afterwards carries the
\* new session
C12_Witness ==
    \E n \in 1..Len(resolves) :
        LET r == resolves[n]
        IN /\ r.distilled # <<>>
           /\ r.distilled[1].outcome = "model error"
           /\ r.latest # <<>>
           /\ r.session = r.latest[1].session + 1
           /\ turns # <<>>
           /\ Last(turns).session = r.session
           /\ Last(turns).created_at = r.at

\* C13: a resolution whose latest turn is exactly the reset marker rolls
\* over without invoking the distiller; the clear path distils the session
\* it resolved
C13_MarkerRolloverDoesNotDistill ==
    /\ \A n \in 1..Len(resolves) :
           LET r == resolves[n]
           IN (r.latest # <<>> /\ r.latest[1].message_text = "/clear") =>
                  /\ r.distilled = <<>>
                  /\ r.session = r.latest[1].session + 1
    /\ lastOp \in {"clear", "start"} =>
           /\ Len(resolves) = 1
           /\ distills # <<>>
           /\ Last(distills).user_email = resolves[1].user_email
           /\ Last(distills).session = resolves[1].session

\* C13 witness: a reset 25 hours after a reset marker: the resolution
\* rolled over from the marker's session and distilled nothing, and the
\* clear path then distilled the new session
C13_Witness ==
    /\ lastOp = "clear"
    /\ Len(resolves) = 1
    /\ resolves[1].latest # <<>>
    /\ resolves[1].latest[1].message_text = "/clear"
    /\ resolves[1].at - resolves[1].latest[1].created_at = 25
    /\ resolves[1].distilled = <<>>
    /\ resolves[1].session = 2
    /\ Last(distills).session = 2

\* C14: handling a text or image message resolves the session exactly
\* once, and the history loaded is that of the session resolved
C14_ResolvedOncePerMessage ==
    lastOp \in {"text", "image"} =>
        /\ Len(resolves) = 1
        /\ lastOp = "text" => history.session = resolves[1].session

\* C15: a resolution in a scope that holds no turn returns 1 and invokes
\* no distillation
C15_EmptyScopeResolvesToOne ==
    \A n \in 1..Len(resolves) :
        resolves[n].stored = 0 =>
            /\ resolves[n].session = 1
            /\ resolves[n].distilled = <<>>

\* C15 witness: the first message of a scope, with no store failure: the
\* resolution found the scope empty and the user turn was stored with
\* session 1
C15_Witness ==
    /\ lastOp = "text"
    /\ storeFailures = 0
    /\ Len(resolves) = 3
    /\ resolves[2].user_email = botEmail
    /\ resolves[2].stored = 0
    /\ resolves[2].session = 1
    /\ Len(turns) = 2
    /\ turns[1].session = 1

\* ------------------------------------------------- dispatcher properties
\* C6: after a stream failure exactly one call is the failure notice, it
\* is a plain message, and no send follows it
C6_ExactlyOneNotice ==
    (Finished /\ ended = "fail") =>
        /\ Cardinality({i \in 1..Len(calls) :
                           calls[i] = Call(Message(ErrorNotice, TRUE))}) = 1
        /\ \A i \in 1..Len(calls) :
               calls[i] = Call(Message(ErrorNotice, TRUE)) =>
                   \A j \in Sends(calls) : j <= i

MentionsNotice(c) ==
    \/ Includes(c.a, "E")
    \/ Includes(c.b, "E")
    \/ \E n \in 1..Len(c.kb) : Includes(c.kb[n], "E")

\* C7: when the stream has failed, the calls of every line completed by
\* the chunks received come first and the notice after them; and a call
\* once issued, and an outcome once reached, never change
C7_CompletedLinesBeforeNotice ==
    /\ [](ended = "fail" =>
            /\ IsPrefix(CompletedLineCalls(Received), calls \o MapCall(todo))
            /\ \A i \in 1..Len(calls) :
                   MentionsNotice(calls[i]) =>
                       i > Len(CompletedLineCalls(Received)))
    /\ [][/\ IsPrefix(calls, calls')
          /\ \A i \in 1..Len(status) :
                 status[i] # "inflight" => status'[i] = status[i]
          /\ IsPrefix(arrival, arrival')]_vars

C7_Witness ==
    /\ pc = "done"
    /\ ended = "fail"
    /\ Len(CompletedLineCalls(Received)) >= 2
    /\ \E i \in 1..Len(calls) : MentionsNotice(calls[i])

\* C8: the text handed over for persistence is the concatenation of the
\* chunks received (the notice yielded by generateResponse is a chunk)
C8_ReturnsAccumulatedText ==
    (pc = "done" /\ returned # None) =>
        returned = Received \o (IF variant = "bot" /\ ended = "fail"
                                THEN ErrorNotice ELSE <<>>)

\* C9: a last line without newline that is not blank adds exactly one
\* send to those of the lines before it
C9_TrailingFlushOnce ==
    (Finished /\ ended = "end" /\ Trim(Last(Split(response, NL))) # <<>>) =>
        Cardinality(Sends(calls))
            = Cardinality(Sends(CompletedLineCalls(response))) + 1

\* C10: when a Messenger call has failed, the calls of everything after
\* it are still issued
C10_FailedCallDoesNotAbort ==
    (Finished /\ ended = "end") =>
        \A i \in 1..Len(calls) :
            status[i] = "failed" =>
                /\ Len(calls) = Len(OneChunkCalls(response))
                /\ SubSeq(calls, i + 1, Len(calls))
                       = SubSeq(OneChunkCalls(response), i + 1, Len(calls))

C10_Witness ==
    /\ pc = "done"
    /\ ended = "end"
    /\ \E i, j \in Sends(calls) :
           i < j /\ status[i] = "failed" /\ status[j] = "ok"
    /\ calls = OneChunkCalls(response)

\* ------------------------------------------------- claims on single lines
\* the completed line of the response
TheLine == Head(Split(response, NL))

\* the fields of the line after the prefix p
Fields(p) == Split(SubSeq(TheLine, Len(p) + 1, Len(TheLine)), SEMI)

\* the trimmed, non-empty fields after the first one, in order
Labels(p) ==
    LET f == Fields(p)
    IN SelectSeq([i \in 1..(Len(f) - 1) |-> Trim(f[i + 1])],
                 LAMBDA x : x # <<>>)

\* cs is one plain text message carrying the line, then a typing indicator
IsPlainText(cs) ==
    /\ Len(cs) = 2
    /\ cs[1].kind = "message"
    /\ Trim(cs[1].a) = Trim(TheLine)
    /\ cs[1].kb = <<>>
    /\ ~cs[1].markup
    /\ cs[2].kind = "typing"

\* cs is one photo with the given URL and caption, then a typing indicator
IsPhoto(cs, url, caption) ==
    /\ Len(cs) = 2
    /\ cs[1].kind = "photo"
    /\ cs[1].a = url
    /\ cs[1].b = caption
    /\ cs[2].kind = "typing"

\* C16: a completed line that starts with "TG_IMAGE " and contains ";" is
\* sent as one photo whose URL is the trimmed first field and whose caption
\* is the trimmed second field, followed by a typing indicator; a line
\* that starts with "TG_IMAGE " and has no ";" is sent as plain text.
C16_ImageLineBecomesPhoto ==
    (pc = "done" /\ StartsWith(TheLine, TG_IMAGE)) =>
        IF Includes(TheLine, SEMI)
        THEN IsPhoto(calls, Trim(Fields(TG_IMAGE)[1]),
                     Trim(Fields(TG_IMAGE)[2]))
        ELSE IsPlainText(calls)

\* C16 witness: an image line with a URL and a caption padded with blanks
\* has been sent as a photo.
C16_Witness ==
    /\ pc = "done"
    /\ StartsWith(TheLine, TG_IMAGE)
    /\ Len(Fields(TG_IMAGE)) = 2
    /\ Trim(Fields(TG_IMAGE)[1]) # <<>>
    /\ Trim(Fields(TG_IMAGE)[2]) # <<>>
    /\ Trim(Fields(TG_IMAGE)[2]) # Fields(TG_IMAGE)[2]
    /\ IsPhoto(calls, Trim(Fields(TG_IMAGE)[1]), Trim(Fields(TG_IMAGE)[2]))

\* C17: an image line whose URL field is empty after trimming sends no
\* photo and is sent as plain text instead.
C17_EmptyUrlFallsBackToText ==
    (/\ pc = "done"
     /\ StartsWith(TheLine, TG_IMAGE)
     /\ Includes(TheLine, SEMI)
     /\ Trim(Fields(TG_IMAGE)[1]) = <<>>) =>
        /\ \A i \in 1..Len(calls) : calls[i].kind # "photo"
        /\ IsPlainText(calls)

C19_NoSuggestionFallsBackToText ==
    (/\ pc = "done"
     /\ StartsWith(TheLine, TG_CONCLUSION)
     /\ Includes(TheLine, SEMI)
     /\ Labels(TG_CONCLUSION) = <<>>) =>
        IsPlainText(calls)

\* C20: a completed line that is empty after trimming produces no call and
\* no error.
C20_BlankLineSendsNothing ==
    (pc = "done" /\ Trim(TheLine) = <<>>) =>
        /\ calls = <<>>
        /\ ended = "end"

\* C20 witness: a line of blanks has been handled and nothing was sent.
C20_Witness ==
    /\ pc = "done"
    /\ TheLine # <<>>
    /\ Trim(TheLine) = <<>>
    /\ calls = <<>>

\* ------------------------------------------------ claims on distillation
\* C21: a distillation of a session without any turn other than reset
\* markers returns failure and leaves the stored context of the scope as
\* it was.
C21_EmptySessionNotDistilled ==
    \A i \in 1..Len(distills) :
        (distills[i].messages = <<>>
         /\ distills[i].outcome # "read failed") =>
            /\ ~distills[i].ok
            /\ distills[i].after = distills[i].before

\* C21 witness: the session of a scope that holds reset markers only has
\* been handed to the distiller, which read its turns and found none.
C21_Witness ==
    \E i \in 1..Len(distills) :
        /\ distills[i].outcome = "no messages"
        /\ ScopeTurns(turns, distills[i].user_email) # <<>>
        /\ ~distills[i].ok
        /\ distills[i].after = distills[i].before

C23_DistillationErrorsReportedAndAbsorbed ==
    [][(/\ opCount' = opCount + 1
        /\ lastOp' \in {"clear", "start"})
       => LET d == Last(distills')
              inDistillation == \/ d.outcome \in {"read failed",
                                                  "write failed"}
                                \/ ~d.contextRead
          IN /\ (d.outcome = "model error" \/ inDistillation) => ~d.ok
             /\ (~d.ok /\ (storeFailures' = storeFailures
                           \/ inDistillation \/ Last(resolves').failed))
                  => /\ Len(turns') = Len(turns) + 1
                     /\ Last(turns').message_text = CLEAR
                     /\ Last(turns').session = Last(resolves').session
       ]_vars

\* ------------------------------------------------------ claims on brdist
\* the texts a brdist handler sends to report an error
BrdErrorTexts == {"session error", "stream error"}

\* C24: only an error of the model stream is shown to the user: every
\* error text a handler sent is the notice of a failed stream, and a
\* failed datastore call causes none.
C24_OnlyStreamErrorsVisible ==
    \A i \in 1..Len(brdSent) :
        brdSent[i] \in BrdErrorTexts => brdSent[i] = "stream error"

\* C29: a stored turn is never changed, and never removed except by the
\* wipe of a /start or /clear command: every step either keeps the turns
\* there were, in order, in front of those it adds, or is a /start or
\* /clear that leaves none.
C29_TurnsImmutableUnlessWiped ==
    [][\/ IsPrefix(brdMessages, brdMessages')
       \/ /\ brdOps' = brdOps + 1
          /\ brdLastOp' \in {"start", "clear"}
          /\ brdMessages' = <<>>
      ]_vars

\* C29 witness: after a wipe a text message has been answered and its two
\* turns are the only ones stored.
C29_Witness ==
    /\ brdOps = 2
    /\ brdFailures = 0
    /\ brdLastOp = "text"
    /\ Len(brdMessages) = 2
    /\ brdMessages[1].role = "user"
    /\ brdMessages[2].role = "assistant"

C25_FailedReadResolvesToOne ==
    \A i \in 1..Len(resolves) :
        resolves[i].failed =>
            /\ resolves[i].session = 1
            /\ resolves[i].latest = <<>>
            /\ resolves[i].distilled = <<>>

\* C25 witness: the scope held a turn of a session after the first (a
\* reset marker of session 1 is followed by a turn), the read of the
\* latest turn failed and the resolution returned 1.
C25_Witness ==
    \E i \in 1..Len(resolves) :
        /\ resolves[i].failed
        /\ resolves[i].session = 1
        /\ resolves[i].stored > 0
        /\ \E j \in 1..Len(turns) :
               /\ turns[j].user_email = resolves[i].user_email
               /\ turns[j].session > 1

\* C28: the stored context of a scope changes only in a step in which a
\* distillation of that scope stored its summary: after a step without one
\* (turn appends, resolutions, failed distillations) it is what it was,
\* after a step with one it is the summary stored last; a row of tg_users,
\* once there, stays.
C28_ContextChangedOnlyByDistiller ==
    [][\A e \in AllEmails :
          LET stored == {i \in (Len(distills) + 1)..Len(distills') :
                            distills'[i].user_email = e /\ distills'[i].ok}
          IN /\ userContext[e].row => userContext'[e].row
             /\ IF stored = {}
                THEN userContext'[e].context = userContext[e].context
                ELSE userContext'[e].context =
                       distills'[CHOOSE i \in stored :
                                    \A j \in stored : j <= i].summary
      ]_vars

\* C28 witness: a distillation stored a summary, a later distillation of
\* the same scope failed, turns were appended, and the stored context is
\* still that summary.
C28_Witness ==
    \E i, j \in 1..Len(distills) :
        /\ i < j
        /\ distills[i].user_email = distills[j].user_email
        /\ distills[i].ok
        /\ ~distills[j].ok
        /\ userContext[distills[i].user_email].context = distills[i].summary
        /\ Len(ScopeTurns(turns, distills[i].user_email)) > 2

\* C27: when distillations of one (account, user) overlap, the stored
\* context is the text of the replacement written last, exactly as its
\* writer computed it: no write is merged with another, held back or
\* refused because of the other invocation.
C27_LastWriteWins ==
    /\ distWrites # <<>> => distContext = Last(distWrites).text
    /\ \A p \in Procs :
           distProc[p].success =>
               \E i \in 1..Len(distWrites) :
                   /\ distWrites[i].by = p
                   /\ distWrites[i].text = distProc[p].enrichedContext

\* C27 witness: both invocations read the same context, both stored a
\* summary and returned success, and the stored context is the summary
\* written second, which holds nothing of the first.
C27_Witness ==
    /\ \A p \in Procs : distProc[p].pc = "returned" /\ distProc[p].success
    /\ distProc[1].currentContext = distProc[2].currentContext
    /\ Len(distWrites) = 2
    /\ distWrites[1].text # distWrites[2].text
    /\ distContext = distWrites[2].text
    /\ distContext = distProc[distWrites[2].by].enrichedContext

\* C26: the acknowledgement is returned without waiting for generation,
\* delivery or persistence: when it is returned no step of the turn has
\* been carried out and the turn is a detached unit of work.
C26_AcknowledgedBeforeProcessing ==
    hookAck # <<>> =>
        /\ hookAck[1].body = "OK"
        /\ hookAck[1].steps = <<>>
        /\ hookAck[1].task = "detached"

\* the newest brd_sessions row is missing or holds fewer than 5 keys
NotEnoughData ==
    brdSessions = <<>> \/ brdData[Len(brdSessions)] < MinDataKeys

\* C31: when the latest BRD session of the (user, chat) is missing or holds
\* fewer than 5 collected data keys, /generate and /spec send the "need more
\* information" warning and do nothing else: no spec is stored and no
\* session or message row changes.
C31_TooLittleDataOnlyWarns ==
    [][(brdOps' = brdOps + 1 /\ brdLastOp' \in {"generate", "spec"}
        /\ NotEnoughData)
       => /\ brdSent' = <<"need more">>
          /\ specs' = specs
          /\ brdSessions' = brdSessions
          /\ brdMessages' = brdMessages]_vars

\* C31 witness: /generate has answered a newest session that holds 4 keys,
\* while an older one holds 5, with the warning.
C31_Witness ==
    /\ brdLastOp = "generate"
    /\ brdSent = <<"need more">>
    /\ Len(brdSessions) = 2
    /\ brdData[1] = MinDataKeys
    /\ brdData[2] = MinDataKeys - 1

\* C32: a spec has version 1 when it is created, and every update of a
\* spec increments its version by exactly 1.
C32_VersionStepsOnEveryUpdate ==
    [][/\ Len(specs') > Len(specs) => specs'[Len(specs')].version = 1
       /\ (/\ brdOps' = brdOps + 1
           /\ brdLastOp' = "updateSpec"
           /\ brdSent'[3] = "updated")
          => \E i \in 1..Len(specs) :
                 specs'[i].version = specs[i].version + 1]_vars

\* C33: under any interleaving of two concurrently handled inbound messages
\* (a reset included) in one scope, the turns appended to the scope carry
\* session numbers that never decrease in append order.
C33_SessionsNeverDecreaseUnderRace ==
    \A i, j \in 1..Len(turns) : i < j => turns[i].session <= turns[j].session

\* C37: an assistant turn is stored only after a completed response: when
\* the stream failed, no assistant turn is stored for the response.
C37_NoAssistantTurnAfterStreamFailure ==
    (pc = "done" /\ ended = "fail") => persisted = None

C35_TurnsCarryTheHistorySession ==
    [][(opCount' = opCount + 1 /\ lastOp' = "text")
       => \A i \in (Len(turns) + 1)..Len(turns') :
              turns'[i].session = history'.session]_vars

\* the turns of the scope stored before its last reset marker
BeforeReset ==
    {turns[j] : j \in {j \in 1..Len(turns) :
                          \E k \in (j + 1)..Len(turns) :
                              /\ turns[k].message_text = CLEAR
                              /\ turns[k].role = "user"}}

\* the history just loaded holds a turn stored before the last reset
LoadedBeforeReset ==
    /\ lastOp = "history"
    /\ \E i \in 1..Len(history.rows) : history.rows[i] \in BeforeReset

Consumed(p) ==
    SubSeq(replyTask[p].response, 1,
           Len(replyTask[p].response) - Len(replyTask[p].rest))

\* what a call that reads these chunks alone dispatches and returns
Alone(text, en) ==
    LET lines == Split(text, NL)
    IN [sent |-> processLines("reply", ButLast(lines))
                 \o (CASE en = "no" -> <<>>
                       [] en = "end" -> processRemaining("reply", Last(lines))
                       [] en = "fail" -> <<Message(ErrorNotice, TRUE)>>),
        returned |-> CASE en = "no" -> None
                       [] en = "end" -> text
                       [] en = "fail" -> ErrorNotice]

\* C36: the buffers of a response generation are never shared: when two
\* generations run at the same time, the lines each one dispatches and the
\* text each one returns are those of its own chunks alone.
C36_BuffersAreNotShared ==
    \A p \in Procs :
        /\ replyTask[p].sent = Alone(Consumed(p), replyTask[p].ended).sent
        /\ replyTask[p].returned
               = Alone(Consumed(p), replyTask[p].ended).returned

\* C36 witness: both calls have returned; the first one read "a", newline,
\* "a" in chunks that end inside a line while the second one was reading,
\* and each dispatched its own two lines.
C36_Witness ==
    /\ \A p \in Procs : replyTask[p].ended = "end"
    /\ replyTask[1].response = <<"a", NL, "a">>
    /\ replyTask[2].response = <<"b", "b", NL>>
    /\ Len(replyTask[1].sent) = 4
    /\ replyTask[2].returned = <<"b", "b", NL>>

\* C39: at any time at most one BRD session of the (user, chat) has the
\* status active, however the handlers of its text messages and commands
\* interleave.
C39_AtMostOneActiveSession ==
    Cardinality({i \in 1..Len(brdSessions) : brdSessions[i] = "active"}) <= 1

\* what reply() has dispatched when it returns: every completed line and
\* the remaining content of a stream that ended, or every line completed
\* before the error and the notice of a stream that failed
RanToTheEnd ==
    /\ pc = "persist"
    /\ calls = IF ended = "end" THEN OneChunkCalls(response)
               ELSE Append(CompletedLineCalls(Received),
                           Call(Message(ErrorNotice, TRUE)))
    /\ ended = "end" => (rest = <<>> /\ responseBuffer = response)

\* C38: a stream is consumed to completion or until it errors: the
\* generation does not return while the stream is open, and once the
\* stream has ended or failed it returns, having dispatched every completed
\* line of the chunks received (and the remaining content or the notice),
\* every Messenger call awaited having returned.
C38_StreamConsumedToTheEnd ==
    /\ [](pc = "persist" => ended # "no")
    /\ (ended # "no") ~> RanToTheEnd

\* C38 witness: the stream has failed after a completed line, one of the
\* Messenger calls awaited has returned a failure, and reply() returns
\* after sending the notice.
C38_Witness ==
    /\ variant = "reply"
    /\ pc = "persist"
    /\ ended = "fail"
    /\ Len(calls) >= 3
    /\ \E i \in 1..Len(status) : status[i] = "failed"
    /\ calls[Len(calls)] = Call(Message(ErrorNotice, TRUE))

====
